---------------------------- MODULE Spec2Model ----------------------------
(***************************************************************************)
(* A model of the Markdown translation tool: the line classifier and the   *)
(* rebuild step of translation_pipeline.py, the inline span parser and the *)
(* page-layout emitter of document_generator.py, and the range-based       *)
(* emitter of google_docs_manager.py.                                      *)
(*                                                                         *)
(* A line of text is a sequence of one-character strings; a document is a  *)
(* sequence of lines.                                                      *)
(***************************************************************************)
EXTENDS Integers, Sequences, FiniteSets, TLC

VARIABLES
    pc,                 \* position of the running function
    lines,              \* the input document: md_path.read_text().splitlines()
    lang,               \* the language code of the conversion
    \* ---- translation_pipeline.process_source_file
    parsed,             \* parse_markdown_lines(lines)
    texts_to_translate, \* the texts sent to the translator
    translated,         \* translator.translate(texts_to_translate, lang_code)
    out,                \* rebuild_markdown_from_translations: out
    t_idx,              \* rebuild_markdown_from_translations: t_idx
    r_pos,              \* rebuild_markdown_from_translations: entries consumed
    langs,              \* the target language codes
    lang_pos,           \* the number of target languages the loop has taken
    no_local,
    use_google,         \* g_manager is set
    written,            \* the files written under translated/, in order
    uploaded,           \* the documents uploaded, in order
    outcomes,           \* for each language taken, how its iteration ended
    \* ---- translators.FallbackTranslator.translate
    translators,        \* self.translators: what each provider does when called
    f_pos,              \* the number of providers the loop has taken
    calls,              \* the providers called, in order
    errors,
    f_result,           \* what translate returned or raised
    \* ---- document_generator._parse_inline_formatting
    text,               \* the text being split
    segments,           \* segments
    last_end,           \* last_end
    \* ---- document_generator.convert_markdown_to_docx
    d_pos,              \* the number of lines of md_lines the loop has taken
    doc,                \* the body of the document: paragraphs and tables
    title_written,
    last_was_heading,
    last_element_type,
    last_list_level,
    buffer,
    in_code_block,
    code_block_lines,
    table_rows,
    buffer_src,         \* for each line of buffer, its index in md_lines
    code_src,           \* for each line of code_block_lines, its index
    table_src,          \* for each row of table_rows, its index
    \* ---- google_docs_manager.GoogleDocsManager.upload_markdown_content
    g_pos,              \* the number of lines the loop has taken
    full_text,
    formats,            \* (start, end, type, level, is_consecutive)
    inline_formats,     \* (start_in_doc, end_in_doc, style)
    current_offset,
    g_in_code_block,    \* in_code_block
    prev_type,
    start,              \* the local `start`, Unbound until first assigned
    requests_list

procVars == <<langs, lang_pos, no_local, use_google, written, uploaded, outcomes>>
fallbackVars == <<translators, f_pos, calls, errors, f_result>>
transVars == <<parsed, texts_to_translate, translated, out, t_idx, r_pos,
               procVars, fallbackVars>>
inlineVars == <<text, segments, last_end>>
docxVars == <<d_pos, doc, title_written, last_was_heading, last_element_type,
              last_list_level, buffer, in_code_block, code_block_lines,
              table_rows, buffer_src, code_src, table_src>>
uploadVars == <<g_pos, full_text, formats, inline_formats, current_offset,
                g_in_code_block, prev_type, start, requests_list>>
vars == <<pc, lines, lang, transVars, inlineVars, docxVars, uploadVars>>

(***************************************************************************)
(* The variables of a function that is not running.                        *)
(***************************************************************************)
\* the pipeline's variables before process_source_file has run
TransIdle ==
    /\ parsed = <<>>
    /\ texts_to_translate = <<>>
    /\ translated = <<>>
    /\ out = <<>>
    /\ t_idx = 0
    /\ r_pos = 0
    /\ langs = <<>>
    /\ lang_pos = 0
    /\ no_local = FALSE
    /\ use_google = FALSE
    /\ written = <<>>
    /\ uploaded = <<>>
    /\ outcomes = <<>>
    /\ translators = <<>>
    /\ f_pos = 0
    /\ calls = <<>>
    /\ errors = <<>>
    /\ f_result = "None"

\* the inline parser's variables while it is not running
InlineIdle ==
    /\ text = <<>>
    /\ segments = <<>>
    /\ last_end = 0

\* convert_markdown_to_docx: the locals before the loop over md_lines
DocxIdle ==
    /\ d_pos = 0
    /\ doc = <<>>
    /\ title_written = FALSE
    /\ last_was_heading = FALSE
    /\ last_element_type = "NORMAL"
    /\ last_list_level = 0
    /\ buffer = <<>>
    /\ in_code_block = FALSE
    /\ code_block_lines = <<>>
    /\ table_rows = <<>>
    /\ buffer_src = <<>>
    /\ code_src = <<>>
    /\ table_src = <<>>

\* a local variable that is not yet bound to a value
Unbound == -1

\* upload_markdown_content: the locals before the loop over lines
UploadIdle ==
    /\ g_pos = 0
    /\ full_text = <<>>
    /\ formats = <<>>
    /\ inline_formats = <<>>
    /\ current_offset = 0
    /\ g_in_code_block = FALSE
    /\ prev_type = "None"
    /\ start = Unbound
    /\ requests_list = <<>>

(***************************************************************************)
(* Strings.                                                                *)
(***************************************************************************)
WS == {" ", "\t"}
DIGITS == {"0", "1", "2", "3", "4", "5", "6", "7", "8", "9"}
\* the backtick character (a string literal cannot hold it)
BT == "BACKTICK"

Min(S) == CHOOSE x \in S : \A y \in S : x <= y
Max(S) == CHOOSE x \in S : \A y \in S : x >= y

\* s[a..b], empty when a > b
Slice(s, a, b) == IF a > b THEN <<>> ELSE SubSeq(s, a, b)
From(s, a) == Slice(s, a, Len(s))

\* the number of leading characters of s that lie in the set C
LeadCount(s, C) ==
    LET stop == {k \in 1..Len(s) : s[k] \notin C}
    IN  IF stop = {} THEN Len(s) ELSE Min(stop) - 1

\* the number of trailing characters of s that lie in the set C
TrailCount(s, C) ==
    LET stop == {k \in 1..Len(s) : s[k] \notin C}
    IN  IF stop = {} THEN Len(s) ELSE Len(s) - Max(stop)

\* str.lstrip(), str.rstrip(), str.strip()
LStrip(s) == From(s, LeadCount(s, WS) + 1)
RStrip(s) == Slice(s, 1, Len(s) - TrailCount(s, WS))
Strip(s) == RStrip(LStrip(s))

\* str.startswith(p)
StartsWith(s, p) == Len(s) >= Len(p) /\ SubSeq(s, 1, Len(p)) = p

RECURSIVE Concat(_)
Concat(ss) == IF ss = <<>> THEN <<>> ELSE Head(ss) \o Concat(Tail(ss))

(***************************************************************************)
(* translation_pipeline.py: the line classifier.                           *)
(***************************************************************************)
\* HR_RE = ^\s*---\s*$
HR_RE(line) == Strip(line) = <<"-", "-", "-">>

\* HEADING_RE = ^(#{1,6})\s+(.*\S)\s*$
HeadingHashes(line) == LeadCount(line, {"#"})
HEADING_RE(line) ==
    LET n == HeadingHashes(line)
    IN  /\ n \in 1..6
        /\ Len(line) > n
        /\ line[n + 1] \in WS
        /\ Strip(From(line, n + 1)) # <<>>
HeadingGroup1(line) == Slice(line, 1, HeadingHashes(line))
HeadingGroup2(line) == Strip(From(line, HeadingHashes(line) + 1))

\* BULLET_RE = ^(\s*)-\s+(.*\S)\s*$
BULLET_RE(line) ==
    LET k == LeadCount(line, WS)
    IN  /\ Len(line) >= k + 2
        /\ line[k + 1] = "-"
        /\ line[k + 2] \in WS
        /\ Strip(From(line, k + 2)) # <<>>
BulletGroup1Dropped(line) == <<>>
BulletGroup1(line) == Slice(line, 1, LeadCount(line, WS))
BulletGroup2(line) == Strip(From(line, LeadCount(line, WS) + 2))

\* NUMBER_RE = ^(\s*)(\d+)\.\s+(.*\S)\s*$
NumberDigits(line) == LeadCount(LStrip(line), DIGITS)
NUMBER_RE(line) ==
    LET k == LeadCount(line, WS)
        d == NumberDigits(line)
    IN  /\ d >= 1
        /\ Len(line) >= k + d + 2
        /\ line[k + d + 1] = "."
        /\ line[k + d + 2] \in WS
        /\ Strip(From(line, k + d + 2)) # <<>>
NumberGroup1(line) == Slice(line, 1, LeadCount(line, WS))
NumberGroup2(line) ==
    Slice(line, LeadCount(line, WS) + 1, LeadCount(line, WS) + NumberDigits(line))
NumberGroup3(line) ==
    Strip(From(line, LeadCount(line, WS) + NumberDigits(line) + 2))

LineInfo(k, p, t) == [kind |-> k, prefix |-> p, text |-> t]

\* the body of the loop of parse_markdown_lines, for one line
ClassifyLine(line) ==
    IF Strip(line) = <<>> THEN LineInfo("blank", <<>>, <<>>)
    ELSE IF HR_RE(line) THEN LineInfo("hr", <<"-", "-", "-">>, <<>>)
    ELSE IF HEADING_RE(line)
        THEN LineInfo("heading", HeadingGroup1(line), HeadingGroup2(line))
    ELSE IF BULLET_RE(line)
        THEN LineInfo("bullet", BulletGroup1(line), BulletGroup2(line))
    ELSE IF NUMBER_RE(line)
        THEN LineInfo("number",
                      NumberGroup1(line) \o NumberGroup2(line) \o <<".">>,
                      NumberGroup3(line))
    ELSE LineInfo("body", <<>>, Strip(line))

parse_markdown_lines(ls) == [k \in 1..Len(ls) |-> ClassifyLine(ls[k])]


\* texts_to_translate = [text for kind, _pfx, text in parsed if text]
RECURSIVE CollectTexts(_)
CollectTexts(ps) ==
    IF ps = <<>> THEN <<>>
    ELSE IF Head(ps).text # <<>>
        THEN <<Head(ps).text>> \o CollectTexts(Tail(ps))
        ELSE CollectTexts(Tail(ps))

(***************************************************************************)
(* translation_pipeline.py: rebuild_markdown_from_translations.            *)
(***************************************************************************)
TranslatableKinds == {"heading", "bullet", "number", "body"}

\* whether the loop body reads translated_texts[t_idx] for an entry of this kind
ReadsText(kind) == kind \in TranslatableKinds

RebuildLineNoSpace(entry, t) ==
    CASE entry.kind = "blank"   -> <<>>
      [] entry.kind = "hr"      -> <<"-", "-", "-">>
      [] entry.kind = "heading" -> entry.prefix \o t
      [] entry.kind = "bullet"  -> entry.prefix \o <<"-", " ">> \o t
      [] entry.kind = "number"  -> entry.prefix \o <<" ">> \o t
      [] entry.kind = "body"    -> t

\* the line appended to out for one parsed entry, t being translated_texts[t_idx]
RebuildLine(entry, t) ==
    CASE entry.kind = "blank"   -> <<>>
      [] entry.kind = "hr"      -> <<"-", "-", "-">>
      [] entry.kind = "heading" -> entry.prefix \o <<" ">> \o t
      [] entry.kind = "bullet"  -> entry.prefix \o <<"-", " ">> \o t
      [] entry.kind = "number"  -> entry.prefix \o <<" ">> \o t
      [] entry.kind = "body"    -> t

\* t_idx after the loop body has handled an entry of this kind
NextTIdxSkipBullet(kind, t) == IF kind \in {"heading", "number", "body"} THEN t + 1 ELSE t
NextTIdx(kind, t) == IF ReadsText(kind) THEN t + 1 ELSE t

(***************************************************************************)
(* The translator is an external collaborator: it returns one text per     *)
(* text it is given.  Three behaviours are enough to tell the texts apart. *)
(***************************************************************************)
DigitOf(k) == <<"1", "2", "3", "4", "5", "6", "7", "8", "9">>[k]
TransModes == {"identity", "tagged", "markup"}
TranslateText(mode, k, t) ==
    CASE mode = "identity" -> t
      [] mode = "tagged"   -> <<"t", DigitOf(k)>>
      [] mode = "markup"   -> <<"2", ".", " ", "#">>
TranslateAll(mode, ts) == [k \in 1..Len(ts) |-> TranslateText(mode, k, ts[k])]

(***************************************************************************)
(* Inputs of the translation pipeline.                                     *)
(***************************************************************************)
MaxTLines == 3

L_blank     == <<>>
L_hr        == <<"-", "-", "-">>
L_h1        == <<"#", " ", "a">>
L_h2wide    == <<"#", "#", " ", " ", "b", " ">>
L_bullet    == <<"-", " ", "a">>
L_bulletInd == <<" ", " ", "-", " ", "b">>
L_num1      == <<"1", ".", " ", "a">>
L_num2      == <<"2", ".", " ", "b">>
L_body      == <<"a", " ", "b">>
L_bodyInd   == <<" ", " ", "c">>
L_fence     == <<BT, BT, BT>>
L_hashInd   == <<" ", "#", " ", "a">>

TLinePool == {L_blank, L_hr, L_h1, L_h2wide, L_bullet, L_bulletInd,
              L_num1, L_num2, L_body, L_bodyInd, L_fence, L_hashInd}

Docs(pool, n) == UNION {[1..k -> pool] : k \in 0..n}


InitT ==
    /\ pc = "start"
    /\ lines \in Docs(TLinePool, MaxTLines)
    /\ lang = "en"
    /\ TransIdle
    /\ InlineIdle
    /\ DocxIdle
    /\ UploadIdle

\* process_source_file: lines = ...splitlines(); parsed = parse_markdown_lines(lines)
Parse ==
    /\ pc = "start"
    /\ parsed' = parse_markdown_lines(lines)
    /\ pc' = "parsed"
    /\ UNCHANGED <<lines, lang, texts_to_translate, translated, out, t_idx, r_pos,
                   procVars, fallbackVars, inlineVars, docxVars, uploadVars>>

\* process_source_file: texts_to_translate = [...]
Collect ==
    /\ pc = "parsed"
    /\ texts_to_translate' = CollectTexts(parsed)
    /\ pc' = "collected"
    /\ UNCHANGED <<lines, lang, parsed, translated, out, t_idx, r_pos,
                   procVars, fallbackVars, inlineVars, docxVars, uploadVars>>

\* process_source_file: if not texts_to_translate: return
NoTexts ==
    /\ pc = "collected"
    /\ texts_to_translate = <<>>
    /\ pc' = "returned"
    /\ UNCHANGED <<lines, lang, transVars, inlineVars, docxVars, uploadVars>>

\* process_source_file: translated = translator.translate(texts_to_translate, lang_code)
Translate ==
    /\ pc = "collected"
    /\ texts_to_translate # <<>>
    /\ \E mode \in TransModes :
          translated' = TranslateAll(mode, texts_to_translate)
    /\ out' = <<>>
    /\ t_idx' = 0
    /\ r_pos' = 0
    /\ pc' = "rebuild"
    /\ UNCHANGED <<lines, lang, parsed, texts_to_translate,
                   procVars, fallbackVars, inlineVars, docxVars, uploadVars>>

\* rebuild_markdown_from_translations: one iteration of the loop over parsed;
\* translated_texts[t_idx] past the end raises IndexError
RebuildStep ==
    /\ pc = "rebuild"
    /\ r_pos < Len(parsed)
    /\ LET entry == parsed[r_pos + 1]
       IN  IF ReadsText(entry.kind) /\ t_idx >= Len(translated)
           THEN /\ pc' = "IndexError"
                /\ UNCHANGED <<out, t_idx, r_pos>>
           ELSE /\ out' = Append(out, RebuildLine(entry,
                            IF ReadsText(entry.kind) THEN translated[t_idx + 1] ELSE <<>>))
                /\ t_idx' = NextTIdx(entry.kind, t_idx)
                /\ r_pos' = r_pos + 1
                /\ pc' = pc
    /\ UNCHANGED <<lines, lang, parsed, texts_to_translate, translated,
                   procVars, fallbackVars, inlineVars, docxVars, uploadVars>>

\* rebuild_markdown_from_translations: return out
RebuildReturn ==
    /\ pc = "rebuild"
    /\ r_pos = Len(parsed)
    /\ pc' = "rebuilt"
    /\ UNCHANGED <<lines, lang, transVars, inlineVars, docxVars, uploadVars>>

NextT == Parse \/ Collect \/ NoTexts \/ Translate \/ RebuildStep \/ RebuildReturn

SpecT == InitT /\ [][NextT]_vars


(***************************************************************************)
(* document_generator.py: _INLINE_RE and _parse_inline_formatting.         *)
(* Positions are 1-based; a match is the record of its kind, its first and *)
(* last position, the positions of its inner text and of its link URL.     *)
(***************************************************************************)
\* whether pat occurs in s at position p
HasAt(s, p, pat) ==
    /\ p >= 1
    /\ p + Len(pat) - 1 <= Len(s)
    /\ SubSeq(s, p, p + Len(pat) - 1) = pat

\* the first position from `from` on at which pat occurs in s, 0 when none
FirstAt(s, pat, from) ==
    LET hits == {q \in from..Len(s) : HasAt(s, q, pat)}
    IN  IF hits = {} THEN 0 ELSE Min(hits)

\* the length of the run of characters other than c that starts at position p
RunNot(s, p, c) ==
    LET stop == {q \in p..Len(s) : s[q] = c}
    IN  IF p > Len(s) THEN 0
        ELSE IF stop = {} THEN Len(s) - p + 1 ELSE Min(stop) - p

NoMatch == [kind |-> "none", start |-> 0, end |-> 0,
            istart |-> 0, iend |-> 0, ustart |-> 0, uend |-> 0]

Span(k, a, b, ia, ib) == [kind |-> k, start |-> a, end |-> b,
                          istart |-> ia, iend |-> ib, ustart |-> 0, uend |-> 0]

\* (?P<bold_italic>\*\*\*(.+?)\*\*\*)
BoldItalicAt(s, p) ==
    LET q == FirstAt(s, <<"*", "*", "*">>, p + 4)
    IN  IF HasAt(s, p, <<"*", "*", "*">>) /\ q # 0
        THEN Span("bold_italic", p, q + 2, p + 3, q - 1) ELSE NoMatch

\* (?P<bold>\*\*(.+?)\*\*)
BoldAt(s, p) ==
    LET q == FirstAt(s, <<"*", "*">>, p + 3)
    IN  IF HasAt(s, p, <<"*", "*">>) /\ q # 0
        THEN Span("bold", p, q + 1, p + 2, q - 1) ELSE NoMatch

\* (?P<italic>\*(.+?)\*)
ItalicAt(s, p) ==
    LET q == FirstAt(s, <<"*">>, p + 2)
    IN  IF HasAt(s, p, <<"*">>) /\ q # 0
        THEN Span("italic", p, q, p + 1, q - 1) ELSE NoMatch

\* (?P<code>`([^`]+)`)
CodeAt(s, p) ==
    LET n == RunNot(s, p + 1, BT)
    IN  IF HasAt(s, p, <<BT>>) /\ n >= 1 /\ HasAt(s, p + 1 + n, <<BT>>)
        THEN Span("code", p, p + 1 + n, p + 1, p + n) ELSE NoMatch

\* (?P<link>\[([^\]]+)\]\(([^)]+)\))
LinkAt(s, p) ==
    LET n == RunNot(s, p + 1, "]")
        m == RunNot(s, p + n + 3, ")")
    IN  IF /\ HasAt(s, p, <<"[">>)
           /\ n >= 1
           /\ HasAt(s, p + 1 + n, <<"]", "(">>)
           /\ m >= 1
           /\ HasAt(s, p + n + 3 + m, <<")">>)
        THEN [kind |-> "link", start |-> p, end |-> p + n + 3 + m,
              istart |-> p + 1, iend |-> p + n,
              ustart |-> p + n + 3, uend |-> p + n + 2 + m]
        ELSE NoMatch

\* _INLINE_RE tried at position p: the first alternative that matches wins
OrElse(m, other) == IF m.kind # "none" THEN m ELSE other
MatchAt(s, p) ==
    OrElse(BoldItalicAt(s, p),
        OrElse(BoldAt(s, p),
            OrElse(ItalicAt(s, p),
                OrElse(CodeAt(s, p), LinkAt(s, p)))))

\* the next match of _INLINE_RE.finditer at or after position p
MatchAtFirst(s, hits) == IF hits = {} THEN NoMatch ELSE MatchAt(s, Min(hits))
NextMatch(s, p) ==
    MatchAtFirst(s, {q \in p..Len(s) : MatchAt(s, q).kind # "none"})

\* link_url = None
NoneUrl == <<>>

Segment(t, b, i, c, u) ==
    [text |-> t, bold |-> b, italic |-> i, code |-> c, link_url |-> u]

PlainSegment(t) == Segment(t, FALSE, FALSE, FALSE, NoneUrl)

\* the segment appended for a match m of the text s
MatchSegment(s, m) ==
    LET inner == Slice(s, m.istart, m.iend)
    IN  CASE m.kind = "bold_italic" -> Segment(inner, TRUE, TRUE, FALSE, NoneUrl)
          [] m.kind = "bold"        -> Segment(inner, TRUE, FALSE, FALSE, NoneUrl)
          [] m.kind = "italic"      -> Segment(inner, FALSE, TRUE, FALSE, NoneUrl)
          [] m.kind = "code"        -> Segment(inner, FALSE, FALSE, TRUE, NoneUrl)
          [] m.kind = "link"        ->
                Segment(inner, FALSE, FALSE, FALSE, Slice(s, m.ustart, m.uend))

\* the segments appended by one iteration of the loop over finditer:
\* the plain text before the match, when there is some, then the match
LoopSegments(s, le, m) ==
    (IF m.start - 1 > le THEN <<PlainSegment(Slice(s, le + 1, m.start - 1))>> ELSE <<>>)
    \o <<MatchSegment(s, m)>>

\* the segments appended after the loop: the trailing plain text
TrailingSegmentsDropped(s, le) == <<>>
TrailingSegments(s, le) ==
    IF le < Len(s) THEN <<PlainSegment(From(s, le + 1))>> ELSE <<>>

\* if not segments: one plain segment holding the text
OrPlain(segs, s) == IF segs = <<>> THEN <<PlainSegment(s)>> ELSE segs

\* _parse_inline_formatting as a function of the text
RECURSIVE ParseFrom(_, _)
\* the segments from last_end = le on, m being the next match
ParseMatch(s, le, m) ==
    IF m.kind = "none" THEN TrailingSegments(s, le)
    ELSE LoopSegments(s, le, m) \o ParseFrom(s, m.end)
ParseFrom(s, le) == ParseMatch(s, le, NextMatch(s, le + 1))
_parse_inline_formatting(s) == OrPlain(ParseFrom(s, 0), s)

(***************************************************************************)
(* Inputs of the inline parser: texts glued from a few fragments.          *)
(***************************************************************************)
MaxFrags == 4

Fragments == {<<"*">>, <<"*", "*">>, <<"*", "*", "*">>, <<"a">>, <<BT>>,
              <<"[", "a", "]">>, <<"(", "u", ")">>}

InlineTexts == {Concat(fs) : fs \in Docs(Fragments, MaxFrags)}

InitI ==
    /\ pc = "inline"
    /\ lines = <<>>
    /\ lang = "es"
    /\ TransIdle
    /\ text \in InlineTexts
    /\ segments = <<>>
    /\ last_end = 0
    /\ DocxIdle
    /\ UploadIdle

\* _parse_inline_formatting: one iteration of `for m in _INLINE_RE.finditer(text)`
InlineMatch ==
    /\ pc = "inline"
    /\ LET m == NextMatch(text, last_end + 1)
       IN  /\ m.kind # "none"
           /\ segments' = segments \o LoopSegments(text, last_end, m)
           /\ last_end' = m.end
    /\ UNCHANGED <<pc, lines, lang, transVars, text, docxVars, uploadVars>>

\* _parse_inline_formatting: after the loop, the trailing text, the fallback, return
InlineReturn ==
    /\ pc = "inline"
    /\ NextMatch(text, last_end + 1).kind = "none"
    /\ segments' = OrPlain(segments \o TrailingSegments(text, last_end), text)
    /\ pc' = "segmented"
    /\ UNCHANGED <<lines, lang, transVars, text, last_end, docxVars, uploadVars>>

NextI == InlineMatch \/ InlineReturn

SpecI == InitI /\ [][NextI]_vars

(***************************************************************************)
(* Claims about parse_markdown_lines and rebuild_markdown_from_translations*)
(***************************************************************************)
\* line.split(): the words of a line, split at runs of whitespace
RECURSIVE Words(_)
Words(s) ==
    LET t == LStrip(s)
        n == LeadCount(t, {c \in {t[k] : k \in 1..Len(t)} : c \notin WS})
    IN  IF t = <<>> THEN <<>> ELSE <<Slice(t, 1, n)>> \o Words(From(t, n + 1))

\* no leading or trailing whitespace, no tab, no two spaces in a row
WellSpaced(s) ==
    /\ Strip(s) = s
    /\ \A k \in 1..Len(s) : s[k] # "\t"
    /\ \A k \in 1..(Len(s) - 1) : ~(s[k] = " " /\ s[k + 1] = " ")

\* the rebuild has returned and the translator gave every text back unchanged
IdentityRun == pc = "rebuilt" /\ translated = texts_to_translate

\* the number of translatable entries among the first k parsed entries
Rank(k) == Cardinality({j \in 1..k : parsed[j].kind \in TranslatableKinds})

EndsWith(s, t) == Len(s) >= Len(t) /\ From(s, Len(s) - Len(t) + 1) = t

C2_TextsMatchTranslatableLines ==
    /\ pc # "IndexError"
    /\ pc \in {"collected", "rebuild", "rebuilt", "returned"} =>
          LET sel == SelectSeq(parsed, LAMBDA e : e.kind \in TranslatableKinds)
          IN  texts_to_translate = [k \in 1..Len(sel) |-> sel[k].text]
    /\ pc \in {"rebuild", "rebuilt"} =>
          /\ Len(translated) = Len(texts_to_translate)
          /\ Len(out) = r_pos
          /\ t_idx = Rank(r_pos)
          /\ t_idx <= Len(translated)
          /\ \A k \in 1..r_pos :
                parsed[k].kind \in TranslatableKinds =>
                    EndsWith(out[k], translated[Rank(k)])
    /\ pc = "rebuilt" => r_pos = Len(lines) /\ t_idx = Len(translated)

C2_Witness ==
    /\ pc = "rebuilt"
    /\ Len(lines) = 3
    /\ parsed[1].kind \in {"blank", "hr"}
    /\ parsed[2].kind = "bullet"
    /\ Len(translated) = 2
    /\ translated[2] = <<"t", "2">>
    /\ EndsWith(out[3], <<"t", "2">>)

\* the leading part of a line up to and including the first c
UpToFirst(s, c) == Slice(s, 1, Min({k \in 1..Len(s) : s[k] = c}))

\* C3: whatever the translated texts are, the rebuilt line of a heading is the
\* source line's hashes, a space and the translated text; of a bullet the
\* source line's indentation, "- " and the text; of a numbered line the source
\* line up to the dot of its number, a space and the text.
C3_PrefixVerbatim ==
    pc = "rebuilt" =>
        \A k \in 1..Len(lines) :
            LET t == translated[Rank(k)]
                src == lines[k]
            IN  /\ parsed[k].kind = "heading" =>
                     out[k] = Slice(src, 1, LeadCount(src, {"#"})) \o <<" ">> \o t
                /\ parsed[k].kind = "bullet" =>
                     out[k] = Slice(src, 1, LeadCount(src, WS)) \o <<"-", " ">> \o t
                /\ parsed[k].kind = "number" =>
                     out[k] = UpToFirst(src, ".") \o <<" ">> \o t

C3_Witness ==
    /\ pc = "rebuilt"
    /\ lines = <<L_bulletInd, L_num2, L_h2wide>>
    /\ translated[1] = <<"2", ".", " ", "#">>
    /\ out[1] = <<" ", " ", "-", " ", "2", ".", " ", "#">>
    /\ out[2] = <<"2", ".", " ", "2", ".", " ", "#">>

\* CODE_FENCE_RE.match(line.strip()): a line opening or closing a code fence
IsFenceLine(line) == StartsWith(Strip(line), <<BT, BT, BT>>)

\* line k lies between an opening fence and its closing fence
InFence(ls, k) ==
    /\ ~IsFenceLine(ls[k])
    /\ Cardinality({j \in 1..(k - 1) : IsFenceLine(ls[j])}) % 2 = 1
    /\ \E j \in (k + 1)..Len(ls) : IsFenceLine(ls[j])

\* C4: no line between an opening and a closing fence contributes a text to
\* the texts sent to the translator, and every such line is carried verbatim
\* into the rebuilt document.
C4_FencedLinesNotTranslated ==
    /\ pc \in {"collected", "rebuild", "rebuilt", "returned"} =>
          LET idx == SelectSeq([k \in 1..Len(lines) |-> k],
                               LAMBDA k : ~InFence(lines, k) /\ parsed[k].text # <<>>)
          IN  texts_to_translate = [j \in 1..Len(idx) |-> parsed[idx[j]].text]
    /\ pc = "rebuilt" =>
          \A k \in 1..Len(lines) : InFence(lines, k) => out[k] = lines[k]


(***************************************************************************)
(* Claims about _parse_inline_formatting.                                  *)
(***************************************************************************)
\* every match _INLINE_RE.finditer yields on s from position p on
RECURSIVE AllMatches(_, _)
AllMatches(s, p) ==
    LET m == NextMatch(s, p)
    IN  IF m.kind = "none" THEN <<>> ELSE <<m>> \o AllMatches(s, m.end + 1)

\* the positions of s that are no delimiter and no link URL of a match
KeptPositions(s) ==
    LET ms == AllMatches(s, 1)
    IN  {k \in 1..Len(s) :
            \/ \A j \in 1..Len(ms) : k < ms[j].start \/ k > ms[j].end
            \/ \E j \in 1..Len(ms) : ms[j].istart <= k /\ k <= ms[j].iend}

\* s with the delimiters and link URLs of its matches removed
Unmarked(s) ==
    LET keep == SelectSeq([k \in 1..Len(s) |-> k], LAMBDA k : k \in KeptPositions(s))
    IN  [j \in 1..Len(keep) |-> s[keep[j]]]

SegmentTexts(segs) == Concat([k \in 1..Len(segs) |-> segs[k].text])

IsStyled(seg) == seg.bold \/ seg.italic \/ seg.code \/ seg.link_url # NoneUrl

\* C5: the segments of a text cover it in order without gap or overlap: at
\* every point of the loop their texts concatenate to the consumed part of the
\* input without the delimiters and link URLs of its matches; on return they
\* concatenate to the whole input so stripped, the styled segments are the
\* inner texts of the matches in order, every plain segment between them is
\* non-empty, and a text without a match gives the one plain segment.
C5_SegmentsCoverText ==
    /\ pc = "inline" =>
          SegmentTexts(segments) = Unmarked(Slice(text, 1, last_end))
    /\ pc = "segmented" =>
          LET ms == AllMatches(text, 1)
              styled == SelectSeq(segments, IsStyled)
          IN  /\ SegmentTexts(segments) = Unmarked(text)
              /\ Len(styled) = Len(ms)
              /\ \A k \in 1..Len(ms) :
                    styled[k].text = Slice(text, ms[k].istart, ms[k].iend)
              /\ \A k \in 1..Len(segments) :
                    segments[k].text = <<>> => text = <<>>
              /\ ms = <<>> => segments = <<PlainSegment(text)>>

C5_Witness ==
    /\ pc = "segmented"
    /\ Len(segments) = 3
    /\ segments[1] = PlainSegment(<<"*">>)
    /\ segments[2] = Segment(<<"a">>, FALSE, FALSE, FALSE, <<"u">>)
    /\ segments[3] = PlainSegment(<<"a">>)


(***************************************************************************)
(* document_generator.py: constants.  Lengths are in tenths of a           *)
(* centimetre, spacing in points, line spacing in tenths.                  *)
(***************************************************************************)
RTL_LANGS == {"ar", "he", "fa", "ur"}

TITLE_SPACE_AFTER_PT == 36
H1_SPACE_BEFORE_PT == 28
H1_SPACE_AFTER_PT == 6
H2_SPACE_BEFORE_PT == 20
H2_SPACE_AFTER_PT == 5
SPACE_AFTER_BEFORE_HEADING_PT == 2
LIST_ITEM_SPACE_BEFORE_PT == 0
LIST_ITEM_SPACE_AFTER_PT == 6
LIST_BLOCK_END_SPACE_AFTER_PT == 12
LIST_BASE_LEFT_INDENT_CM == 15
LIST_LEVEL_INDENT_CM == 5
LIST_HANGING_CM == 4
BULLET_INDENT_SPACES == 2

\* a paragraph property python-docx leaves unset (None)
Unset == -1000

\* the bullet character insert_bullet_item writes for a right-to-left language
BULLET_CHAR == "BULLET"

LETTERS == {"a", "b", "c", "d", "e", "f", "g", "h", "i", "j", "k", "l", "m",
            "n", "o", "p", "q", "r", "s", "t", "u", "v", "w", "x", "y", "z",
            "A", "B", "C", "D", "E", "F", "G", "H", "I", "J", "K", "L", "M",
            "N", "O", "P", "Q", "R", "S", "T", "U", "V", "W", "X", "Y", "Z"}

_is_rtl(lg) == lg \in RTL_LANGS

(***************************************************************************)
(* More string functions.                                                  *)
(***************************************************************************)
\* str.strip(chars), str.lstrip(chars)
LStripChars(s, C) == From(s, LeadCount(s, C) + 1)
StripChars(s, C) ==
    LET t == LStripChars(s, C) IN Slice(t, 1, Len(t) - TrailCount(t, C))

\* str.split(sep)
RECURSIVE Split(_, _)
Split(s, sep) ==
    LET q == FirstAt(s, sep, 1)
    IN  IF q = 0 THEN <<s>>
        ELSE <<Slice(s, 1, q - 1)>> \o Split(From(s, q + Len(sep)), sep)

\* " ".join(parts)
RECURSIVE JoinSpace(_)
JoinSpace(parts) ==
    IF parts = <<>> THEN <<>>
    ELSE IF Len(parts) = 1 THEN parts[1]
    ELSE parts[1] \o <<" ">> \o JoinSpace(Tail(parts))

\* sep in s
Contains(s, sep) == FirstAt(s, sep, 1) # 0

(***************************************************************************)
(* document_generator.py: the patterns of convert_markdown_to_docx.        *)
(***************************************************************************)
\* CODE_FENCE_RE = ^```, matched against line.strip()
CODE_FENCE_RE(s) == StartsWith(s, <<BT, BT, BT>>)

\* TABLE_ROW_RE = ^\|(.+)\|\s*$
TABLE_ROW_RE(line) ==
    LET r == RStrip(line)
    IN  Len(r) >= 3 /\ r[1] = "|" /\ r[Len(r)] = "|"

\* TABLE_SEP_RE = ^\|[\s\-:|]+\|\s*$
TABLE_SEP_RE(line) ==
    /\ TABLE_ROW_RE(line)
    /\ \A k \in 1..Len(line) : line[k] \in WS \cup {"-", ":", "|"}

\* BLOCKQUOTE_RE = ^>\s?(.*)
BLOCKQUOTE_RE(line) == StartsWith(line, <<">">>)
BlockquoteGroup1(line) ==
    IF Len(line) >= 2 /\ line[2] \in WS THEN From(line, 3) ELSE From(line, 2)

\* re.match(r"^\s*(---|\*\*\*)\s*$", line)
IsRuleLine(line) == Strip(line) \in {<<"-", "-", "-">>, <<"*", "*", "*">>}

\* the list level of a line: its leading whitespace, a tab counting four,
\* divided by BULLET_INDENT_SPACES and capped at 2
ListLevel(line) ==
    LET lead == LeadCount(line, WS)
        indent == Cardinality({k \in 1..lead : line[k] = " "})
                  + 4 * Cardinality({k \in 1..lead : line[k] = "\t"})
        level == indent \div BULLET_INDENT_SPACES
    IN  IF level < 2 THEN level ELSE 2

\* re.match(r"^(\d+)\.\s+(.*\S)\s*$", s)
NumberedItem(s) ==
    LET d == LeadCount(s, DIGITS)
    IN  /\ d >= 1
        /\ Len(s) >= d + 2
        /\ s[d + 1] = "."
        /\ s[d + 2] \in WS
        /\ Strip(From(s, d + 2)) # <<>>
NumberedContent(s) == Strip(From(s, LeadCount(s, DIGITS) + 2))

\* re.match(r"^([a-zA-Z])([\)\.])\s+(.*\S)\s*$", s)
AlphaItem(s) ==
    /\ Len(s) >= 3
    /\ s[1] \in LETTERS
    /\ s[2] \in {")", "."}
    /\ s[3] \in WS
    /\ Strip(From(s, 3)) # <<>>
AlphaLabel(s) == Slice(s, 1, 2)
AlphaContent(s) == Strip(From(s, 3))

\* s.startswith("- ")
BulletItem(s) == StartsWith(s, <<"-", " ">>)

\* the items a bullet line gives: its content, split at " - " when it holds one
BulletParts(s) ==
    LET content == Strip(From(s, 3))
        parts == SelectSeq([k \in 1..Len(Split(content, <<" ", "-", " ">>)) |->
                               Strip(Split(content, <<" ", "-", " ">>)[k])],
                           LAMBDA q : q # <<>>)
    IN  IF Contains(content, <<" ", "-", " ">>)
        THEN [k \in 1..Len(parts) |->
                 IF StartsWith(parts[k], <<"-", " ">>)
                 THEN Strip(From(parts[k], 3)) ELSE parts[k]]
        ELSE <<content>>

\* line.startswith("  ") or line.startswith("\t")
IsIndented(line) == StartsWith(line, <<" ", " ">>) \/ StartsWith(line, <<"\t">>)

(***************************************************************************)
(* document_generator.py: paragraphs.  A body element is a record: its     *)
(* kind names the function that wrote it, src the source line it came from.*)
(***************************************************************************)
NewParagraph(kind, style, runs, src) ==
    [kind |-> kind, style |-> style, runs |-> runs, level |-> 0,
     alignment |-> "NONE", bidi |-> FALSE, run_rtl |-> FALSE,
     left_indent |-> Unset, right_indent |-> Unset, first_line_indent |-> Unset,
     space_before |-> Unset, space_after |-> Unset, line_spacing |-> Unset,
     src |-> src, header |-> <<>>, rows |-> <<>>]

\* the runs doc.add_paragraph(text) and doc.add_heading(text) write
TextRuns(t) == IF t = <<>> THEN <<>> ELSE <<PlainSegment(t)>>

\* _add_formatted_runs: one run per segment of the stripped text
FormattedRuns(t) == _parse_inline_formatting(Strip(t))

\* _set_paragraph_rtl
_set_paragraph_rtl(p) == [p EXCEPT !.bidi = TRUE, !.alignment = "RIGHT"]

\* _apply_rtl_if_needed
_apply_rtl_if_needed(p, lg) ==
    IF ~_is_rtl(lg) THEN p
    ELSE [_set_paragraph_rtl(p) EXCEPT !.alignment = "RIGHT", !.run_rtl = TRUE]

\* format_body_paragraph
format_body_paragraph(p, lg) ==
    _apply_rtl_if_needed(
        [p EXCEPT !.style = "Normal",
                  !.alignment = IF _is_rtl(lg) THEN "RIGHT" ELSE "JUSTIFY",
                  !.line_spacing = IF _is_rtl(lg) THEN 13 ELSE 12,
                  !.space_before = 0,
                  !.space_after = IF _is_rtl(lg) THEN 8 ELSE 6], lg)

\* format_heading_paragraph
format_heading_paragraph(p, level, lg) ==
    _apply_rtl_if_needed(
        [p EXCEPT !.alignment = IF _is_rtl(lg) THEN "RIGHT" ELSE "LEFT",
                  !.space_before = IF level = 1 THEN H1_SPACE_BEFORE_PT
                                   ELSE IF level = 2 THEN H2_SPACE_BEFORE_PT ELSE 16,
                  !.space_after = IF level = 1 THEN H1_SPACE_AFTER_PT
                                  ELSE IF level = 2 THEN H2_SPACE_AFTER_PT ELSE 6], lg)

\* _apply_list_indentation
_apply_list_indentation(p, level, lg) ==
    IF _is_rtl(lg)
    THEN [p EXCEPT !.left_indent = 0,
                   !.right_indent = LIST_BASE_LEFT_INDENT_CM + level * LIST_LEVEL_INDENT_CM,
                   !.first_line_indent = 0 - LIST_HANGING_CM]
    ELSE [p EXCEPT !.right_indent = 0,
                   !.left_indent = LIST_BASE_LEFT_INDENT_CM + level * LIST_LEVEL_INDENT_CM,
                   !.first_line_indent = 0 - LIST_HANGING_CM]

\* the index in d of the last paragraph, doc.paragraphs[-1]; 0 when there is none
LastParagraph(d) ==
    LET ps == {k \in 1..Len(d) : d[k].kind # "table"}
    IN  IF ps = {} THEN 0 ELSE Max(ps)

\* reduce_spacing_before_heading(doc), reduce_spacing_before_list(doc, pt)
ReduceSpacing(d, pt) ==
    LET k == LastParagraph(d)
    IN  IF k # 0 /\ d[k].style = "Normal" THEN [d EXCEPT ![k].space_after = pt] ELSE d
reduce_spacing_before_heading(d) == ReduceSpacing(d, SPACE_AFTER_BEFORE_HEADING_PT)
reduce_spacing_before_list(d, pt) == ReduceSpacing(d, pt)

ListStyles == {"List Bullet", "List Bullet 2", "List Bullet 3",
               "List Number", "List Number 2", "List Number 3"}

\* ensure_spacing_after_list
ensure_spacing_after_list(d) ==
    LET k == LastParagraph(d)
    IN  IF k # 0 /\ d[k].style \in ListStyles
        THEN [d EXCEPT ![k].space_after = LIST_BLOCK_END_SPACE_AFTER_PT] ELSE d

\* insert_document_title
insert_document_title(d, t, lg, src) ==
    Append(d, _apply_rtl_if_needed(
        [NewParagraph("title", "Normal", TextRuns(Strip(t)), src)
            EXCEPT !.alignment = "CENTER",
                   !.space_after = TITLE_SPACE_AFTER_PT], lg))

\* insert_heading: the Word level of a Markdown heading level
WordLevelSameAsMarkdown(md_level) == md_level
WordLevel(md_level) ==
    LET w == IF md_level - 1 > 1 THEN md_level - 1 ELSE 1
    IN  IF w < 9 THEN w ELSE 9

HeadingStyle(level) ==
    <<"Heading 1", "Heading 2", "Heading 3", "Heading 4", "Heading 5",
      "Heading 6", "Heading 7", "Heading 8", "Heading 9">>[level]

\* insert_heading
insert_heading(d, t, md_level, lg, src) ==
    LET word_level == WordLevel(md_level)
    IN  Append(d, format_heading_paragraph(
            [NewParagraph("heading", HeadingStyle(word_level), TextRuns(Strip(t)), src)
                EXCEPT !.level = word_level], word_level, lg))

\* the part insert_bullet_item, insert_numbered_item and insert_alphabetic_item
\* share: spacing, indentation, runs, direction
ListItem(p, t, level, lg) ==
    _apply_rtl_if_needed(
        [_apply_list_indentation(
            [p EXCEPT !.level = level,
                      !.line_spacing = IF _is_rtl(lg) THEN 13 ELSE 12,
                      !.space_before = LIST_ITEM_SPACE_BEFORE_PT,
                      !.space_after = LIST_ITEM_SPACE_AFTER_PT], level, lg)
         EXCEPT !.runs = FormattedRuns(t)], lg)

\* insert_bullet_item
insert_bullet_item(d, t, level, lg, src) ==
    Append(d,
        IF _is_rtl(lg)
        THEN ListItem(_set_paragraph_rtl(NewParagraph("bullet", "Normal", <<>>, src)),
                      <<BULLET_CHAR, " ">> \o t, level, lg)
        ELSE ListItem([NewParagraph("bullet",
                          IF level = 0 THEN "List Bullet"
                          ELSE IF level = 1 THEN "List Bullet 2" ELSE "List Bullet 3",
                          <<>>, src) EXCEPT !.alignment = "LEFT"], t, level, lg))

\* insert_numbered_item
insert_numbered_item(d, t, level, lg, src) ==
    Append(d,
        IF _is_rtl(lg)
        THEN ListItem([NewParagraph("number", "Normal", <<>>, src)
                          EXCEPT !.alignment = "RIGHT"], t, level, lg)
        ELSE ListItem([NewParagraph("number",
                          IF level = 0 THEN "List Number"
                          ELSE IF level = 1 THEN "List Number 2" ELSE "List Number 3",
                          <<>>, src) EXCEPT !.alignment = "LEFT"], t, level, lg))

\* insert_alphabetic_item
insert_alphabetic_item(d, label, t, level, lg, src) ==
    Append(d, ListItem([NewParagraph("alpha", "Normal", <<>>, src)
                           EXCEPT !.alignment = "LEFT"],
                       label \o <<" ">> \o t, level, lg))

\* insert_blockquote
insert_blockquote(d, t, lg, src) ==
    Append(d, _apply_rtl_if_needed(
        [NewParagraph("quote", "Normal", FormattedRuns(t), src)
            EXCEPT !.alignment = IF _is_rtl(lg) THEN "RIGHT" ELSE "LEFT",
                   !.left_indent = 15,
                   !.space_before = 4,
                   !.space_after = 4,
                   !.line_spacing = 12], lg))

\* insert_code_block_line
insert_code_block_line(d, t, lg, src) ==
    Append(d, format_body_paragraph(NewParagraph("code", "Normal", TextRuns(t), src), lg))

\* the cells of a table row: [c.strip() for c in row.strip("|").split("|")]
RowCells(row) ==
    LET cs == Split(StripChars(row, {"|"}), <<"|">>)
    IN  [k \in 1..Len(cs) |-> Strip(cs[k])]

\* insert_simple_table: a table of len(header_row) columns; a short row leaves
\* its last cells empty, a long row loses its last cells
insert_simple_table(d, header_row, data_rows, lg, src) ==
    Append(d,
        [NewParagraph("table", "Table Grid", <<>>, src)
            EXCEPT !.header = [c \in 1..Len(header_row) |-> Strip(header_row[c])],
                   !.rows = [r \in 1..Len(data_rows) |->
                               [c \in 1..Len(header_row) |->
                                   IF c <= Len(data_rows[r])
                                   THEN Strip(data_rows[r][c]) ELSE <<>>]]])

(***************************************************************************)
(* document_generator.py: convert_markdown_to_docx.  The closures          *)
(* flush_buffer, flush_code_block and flush_table work on the document and *)
(* the three pending lists, held here in one record.                       *)
(***************************************************************************)
St == [doc |-> doc, buffer |-> buffer, buffer_src |-> buffer_src,
       code_block_lines |-> code_block_lines, code_src |-> code_src,
       table_rows |-> table_rows, table_src |-> table_src]

\* the paragraph flush_buffer writes for the text para
BufferParagraph(para, src) ==
    LET p == NewParagraph(IF last_element_type = "BULLET_CONT"
                          THEN "continuation" ELSE "body",
                          "Normal", FormattedRuns(para), src)
    IN  IF last_element_type = "BULLET_CONT"
        THEN _apply_rtl_if_needed(
                 _apply_list_indentation(
                     [p EXCEPT !.line_spacing = IF _is_rtl(lang) THEN 13 ELSE 12,
                               !.space_before = 0,
                               !.space_after = LIST_ITEM_SPACE_AFTER_PT],
                     last_list_level, lang), lang)
        ELSE format_body_paragraph(p, lang)

\* flush_buffer
flush_buffer(s) ==
    LET para == Strip(JoinSpace([k \in 1..Len(s.buffer) |-> Strip(s.buffer[k])]))
    IN  [s EXCEPT !.buffer = <<>>,
                  !.buffer_src = <<>>,
                  !.doc = IF para # <<>>
                          THEN Append(ensure_spacing_after_list(s.doc),
                                      BufferParagraph(para, s.buffer_src[1]))
                          ELSE s.doc]

\* flush_code_block
RECURSIVE CodeParagraphs(_, _, _)
CodeParagraphs(d, cls, srcs) ==
    IF cls = <<>> THEN d
    ELSE CodeParagraphs(insert_code_block_line(d, Head(cls), lang, Head(srcs)),
                        Tail(cls), Tail(srcs))
flush_code_block(s) ==
    [s EXCEPT !.doc = CodeParagraphs(s.doc, s.code_block_lines, s.code_src),
              !.code_block_lines = <<>>,
              !.code_src = <<>>]

\* flush_table
flush_table(s) ==
    IF Len(s.table_rows) < 2
    THEN [s EXCEPT !.buffer = s.buffer \o s.table_rows,
                   !.buffer_src = s.buffer_src \o s.table_src,
                   !.table_rows = <<>>,
                   !.table_src = <<>>]
    ELSE LET header_cells == RowCells(s.table_rows[1])
             kept == SelectSeq(Tail(s.table_rows), LAMBDA row : ~TABLE_SEP_RE(row))
             data == [k \in 1..Len(kept) |-> RowCells(kept[k])]
         IN  [s EXCEPT !.doc = IF data # <<>>
                               THEN insert_simple_table(s.doc, header_cells, data,
                                                        lang, s.table_src[1])
                               ELSE s.doc,
                       !.table_rows = <<>>,
                       !.table_src = <<>>]

\* the line the loop is at
DLine == lines[d_pos + 1]
DSrc == d_pos + 1

\* the loop has a line left to read
DocxLoop == pc = "docx" /\ d_pos < Len(lines)

\* the line is neither a fence, nor inside a code block, nor a table row: the
\* loop reaches the `elif table_rows: flush_table()` before the other branches
DocxPlain ==
    /\ DocxLoop
    /\ ~CODE_FENCE_RE(Strip(DLine))
    /\ ~in_code_block
    /\ ~TABLE_ROW_RE(DLine)
AfterTableKept == St
AfterTable == IF table_rows # <<>> THEN flush_table(St) ELSE St

\* ... and the branches that start with flush_buffer() go on from this
Flushed == CHOOSE r \in {flush_buffer(s) : s \in {AfterTable}} : TRUE

\* the line reaches the list detection
DocxListable ==
    /\ DocxPlain
    /\ ~HEADING_RE(DLine)
    /\ Strip(DLine) # <<>>
    /\ ~BLOCKQUOTE_RE(DLine)
    /\ ~IsRuleLine(DLine)
DStripped == Strip(DLine)

\* the assignment of the record's fields to the variables
Commit(s) ==
    /\ doc' = s.doc
    /\ buffer' = s.buffer
    /\ buffer_src' = s.buffer_src
    /\ code_block_lines' = s.code_block_lines
    /\ code_src' = s.code_src
    /\ table_rows' = s.table_rows
    /\ table_src' = s.table_src

otherVars == <<lines, lang, transVars, inlineVars, uploadVars>>

\* a fence line: closes the code block and writes its lines, or opens one
DocxFence ==
    /\ DocxLoop
    /\ CODE_FENCE_RE(Strip(DLine))
    /\ \E s \in {IF in_code_block THEN flush_code_block(St) ELSE flush_buffer(St)} :
           Commit(s)
    /\ in_code_block' = ~in_code_block
    /\ d_pos' = d_pos + 1
    /\ UNCHANGED <<pc, title_written, last_was_heading, last_element_type,
                   last_list_level, otherVars>>

\* a line inside a code block
DocxCodeLine ==
    /\ DocxLoop
    /\ ~CODE_FENCE_RE(Strip(DLine))
    /\ in_code_block
    /\ code_block_lines' = Append(code_block_lines, DLine)
    /\ code_src' = Append(code_src, DSrc)
    /\ d_pos' = d_pos + 1
    /\ UNCHANGED <<pc, doc, buffer, buffer_src, table_rows, table_src,
                   in_code_block, title_written, last_was_heading,
                   last_element_type, last_list_level, otherVars>>

\* a table row
DocxTableRow ==
    /\ DocxLoop
    /\ ~CODE_FENCE_RE(Strip(DLine))
    /\ ~in_code_block
    /\ TABLE_ROW_RE(DLine)
    /\ \E s \in {IF table_rows = <<>> THEN flush_buffer(St) ELSE St} :
           Commit([s EXCEPT !.table_rows = Append(s.table_rows, DLine),
                            !.table_src = Append(s.table_src, DSrc)])
    /\ last_was_heading' = FALSE
    /\ d_pos' = d_pos + 1
    /\ UNCHANGED <<pc, in_code_block, title_written, last_element_type,
                   last_list_level, otherVars>>

\* the heading branch after a heading: the last paragraph's space after is 4
\* and the new heading's space before is 6
CompressedHeading(d, t, level, src) ==
    LET k == LastParagraph(d)
        d1 == insert_heading([d EXCEPT ![k].space_after = 4], t, level, lang, src)
    IN  [d1 EXCEPT ![Len(d1)].space_before = 6]

\* whether the heading branch writes the title
TitleAlways(level) == level = 1
WritesTitle(level) == level = 1 /\ ~title_written

\* a heading
DocxHeading ==
    /\ DocxPlain
    /\ HEADING_RE(DLine)
    /\ \E s \in {Flushed}, heading_text \in {HeadingGroup2(DLine)},
          level \in {Len(HeadingGroup1(DLine))} :
           IF WritesTitle(level)
           THEN /\ \E d \in {insert_document_title(s.doc, heading_text, lang, DSrc)} :
                       Commit([s EXCEPT !.doc = d])
                /\ title_written' = TRUE
           ELSE /\ \E d \in {IF last_was_heading
                              THEN CompressedHeading(s.doc, heading_text, level, DSrc)
                              ELSE insert_heading(
                                       reduce_spacing_before_heading(s.doc),
                                       heading_text, level, lang, DSrc)} :
                       Commit([s EXCEPT !.doc = d])
                /\ UNCHANGED title_written
    /\ last_was_heading' = TRUE
    /\ d_pos' = d_pos + 1
    /\ UNCHANGED <<pc, in_code_block, last_element_type, last_list_level, otherVars>>

\* a blank line
DocxBlank ==
    /\ DocxPlain
    /\ ~HEADING_RE(DLine)
    /\ Strip(DLine) = <<>>
    /\ \E s \in {Flushed} : Commit(s)
    /\ last_was_heading' = FALSE
    /\ last_element_type' = "NORMAL"
    /\ d_pos' = d_pos + 1
    /\ UNCHANGED <<pc, in_code_block, title_written, last_list_level, otherVars>>

\* a blockquote
DocxBlockquote ==
    /\ DocxPlain
    /\ ~HEADING_RE(DLine)
    /\ Strip(DLine) # <<>>
    /\ BLOCKQUOTE_RE(DLine)
    /\ \E s \in {Flushed} :
       \E d \in {insert_blockquote(s.doc, BlockquoteGroup1(DLine), lang, DSrc)} :
           Commit([s EXCEPT !.doc = d])
    /\ last_was_heading' = FALSE
    /\ d_pos' = d_pos + 1
    /\ UNCHANGED <<pc, in_code_block, title_written, last_element_type,
                   last_list_level, otherVars>>

\* a horizontal rule: the line goes to the buffer
DocxRule ==
    /\ DocxPlain
    /\ ~HEADING_RE(DLine)
    /\ Strip(DLine) # <<>>
    /\ ~BLOCKQUOTE_RE(DLine)
    /\ IsRuleLine(DLine)
    /\ \E s \in {Flushed} :
           Commit([s EXCEPT !.buffer = Append(s.buffer, DLine),
                            !.buffer_src = Append(s.buffer_src, DSrc)])
    /\ last_was_heading' = FALSE
    /\ d_pos' = d_pos + 1
    /\ UNCHANGED <<pc, in_code_block, title_written, last_element_type,
                   last_list_level, otherVars>>

\* the part the three list branches share: the items are written after
\* flush_buffer and reduce_spacing_before_list(doc, pt=0)
BeforeList == reduce_spacing_before_list(Flushed.doc, 0)

ListWritten(d) ==
    /\ \E s \in {Flushed} : Commit([s EXCEPT !.doc = d])
    /\ last_was_heading' = FALSE
    /\ last_element_type' = "LIST"
    /\ last_list_level' = ListLevel(DLine)
    /\ d_pos' = d_pos + 1
    /\ UNCHANGED <<pc, in_code_block, title_written, otherVars>>

\* a numbered item
DocxNumbered ==
    /\ DocxListable
    /\ NumberedItem(DStripped)
    /\ \E d0 \in {BeforeList} :
       \E d \in {insert_numbered_item(d0, NumberedContent(DStripped),
                                      ListLevel(DLine), lang, DSrc)} :
           ListWritten(d)

\* an alphabetic item
DocxAlpha ==
    /\ DocxListable
    /\ ~NumberedItem(DStripped)
    /\ AlphaItem(DStripped)
    /\ \E d0 \in {BeforeList} :
       \E d \in {insert_alphabetic_item(d0, AlphaLabel(DStripped),
                                        AlphaContent(DStripped),
                                        ListLevel(DLine), lang, DSrc)} :
           ListWritten(d)

\* the bullet items of one line, written one after the other
RECURSIVE BulletItems(_, _, _, _)
BulletItems(d, parts, level, src) ==
    IF parts = <<>> THEN d
    ELSE BulletItems(insert_bullet_item(d, Head(parts), level, lang, src),
                     Tail(parts), level, src)

\* a bullet line
DocxBullet ==
    /\ DocxListable
    /\ ~NumberedItem(DStripped)
    /\ ~AlphaItem(DStripped)
    /\ BulletItem(DStripped)
    /\ \E d0 \in {BeforeList}, parts \in {BulletParts(DStripped)} :
       \E d \in {BulletItems(d0, parts, ListLevel(DLine), DSrc)} :
           ListWritten(d)

\* the line is no list item
DocxText ==
    /\ DocxListable
    /\ ~NumberedItem(DStripped)
    /\ ~AlphaItem(DStripped)
    /\ ~BulletItem(DStripped)

\* an indented line after a list item: a continuation of the item
DocxContinuation ==
    /\ DocxText
    /\ last_element_type \in {"LIST", "BULLET_CONT"}
    /\ IsIndented(DLine)
    /\ \E s \in {AfterTable} :
           Commit([s EXCEPT !.buffer = Append(s.buffer, DLine),
                            !.buffer_src = Append(s.buffer_src, DSrc)])
    /\ last_was_heading' = FALSE
    /\ last_element_type' = "BULLET_CONT"
    /\ d_pos' = d_pos + 1
    /\ UNCHANGED <<pc, in_code_block, title_written, last_list_level, otherVars>>

\* a body line
DocxBody ==
    /\ DocxText
    /\ ~(last_element_type \in {"LIST", "BULLET_CONT"} /\ IsIndented(DLine))
    /\ \E s \in {IF last_element_type = "BULLET_CONT" THEN Flushed ELSE AfterTable} :
           Commit([s EXCEPT !.buffer = Append(s.buffer, DLine),
                            !.buffer_src = Append(s.buffer_src, DSrc)])
    /\ last_was_heading' = FALSE
    /\ last_element_type' = "NORMAL"
    /\ d_pos' = d_pos + 1
    /\ UNCHANGED <<pc, in_code_block, title_written, last_list_level, otherVars>>

\* the final flushes and doc.save
DocxFinish ==
    /\ pc = "docx"
    /\ d_pos = Len(lines)
    /\ \E s1 \in {IF in_code_block THEN flush_code_block(St) ELSE St} :
       \E s2 \in {IF s1.table_rows # <<>> THEN flush_table(s1) ELSE s1} :
       \E s3 \in {flush_buffer(s2)} :
           Commit(s3)
    /\ pc' = "saved"
    /\ UNCHANGED <<d_pos, in_code_block, title_written, last_was_heading,
                   last_element_type, last_list_level, otherVars>>

(***************************************************************************)
(* The documents the page-layout function is run on.                       *)
(***************************************************************************)
MaxDLines == 3

D_title   == <<"#", " ", "T">>
D_section == <<"#", "#", " ", "S">>
D_sub     == <<"#", "#", "#", " ", "H">>
D_bullet  == <<"-", " ", "a">>
D_number  == <<"1", ".", " ", "a">>
D_alpha   == <<"A", ")", " ", "a">>
D_quote   == <<">", " ", "q">>
D_indent  == <<" ", " ", "c">>
D_body    == <<"b">>
D_row     == <<"|", "h", "|">>
D_sep     == <<"|", "-", "|">>
DLinePool == {L_blank, L_hr, L_fence, D_title, D_section, D_sub, D_bullet,
              D_number, D_alpha, D_quote, D_indent, D_body, D_row, D_sep}

DLangs == {"es", "ar"}

InitD ==
    /\ pc = "docx"
    /\ lines \in Docs(DLinePool, MaxDLines)
    /\ lang \in DLangs
    /\ TransIdle
    /\ InlineIdle
    /\ DocxIdle
    /\ UploadIdle

NextD ==
    \/ DocxFence
    \/ DocxCodeLine
    \/ DocxTableRow
    \/ DocxHeading
    \/ DocxBlank
    \/ DocxBlockquote
    \/ DocxRule
    \/ DocxNumbered
    \/ DocxAlpha
    \/ DocxBullet
    \/ DocxContinuation
    \/ DocxBody
    \/ DocxFinish

SpecD == InitD /\ [][NextD]_vars

(***************************************************************************)
(* google_docs_manager.py: upload_markdown_content.  The text of the       *)
(* document is a sequence of characters, a line break among them; a range  *)
(* is a pair of indexes into the document, the first character at 1.       *)
(***************************************************************************)
NL == "\n"

\* the style of a range of _strip_inline_markers: bold, italic, code, link
Style(b, i, c, u) == [bold |-> b, italic |-> i, code |-> c, link |-> u]

\* the style _strip_inline_markers gives a match
MatchStyle(s, m) ==
    CASE m.kind = "bold_italic" -> Style(TRUE, TRUE, FALSE, NoneUrl)
      [] m.kind = "bold"        -> Style(TRUE, FALSE, FALSE, NoneUrl)
      [] m.kind = "italic"      -> Style(FALSE, TRUE, FALSE, NoneUrl)
      [] m.kind = "code"        -> Style(FALSE, FALSE, TRUE, NoneUrl)
      [] m.kind = "link"        -> Style(FALSE, FALSE, FALSE, Slice(s, m.ustart, m.uend))

\* _strip_inline_markers from last_end = le on, with the clean text so far:
\* the clean text and the ranges (offsets into the clean text, from 0)
RECURSIVE StripFrom(_, _, _)
\* fmt_ranges.append((start, len(clean), style)), ahead of the later ranges
WithRange(fs, fe, style, rest) ==
    [clean |-> rest.clean,
     fmt_ranges |-> <<[fs |-> fs, fe |-> fe, style |-> style]>> \o rest.fmt_ranges]
\* the match m, with the clean text before it and its inner text
StripInner(s, m, before, inner) ==
    WithRange(Len(before), Len(before) + Len(inner), MatchStyle(s, m),
              StripFrom(s, m.end, before \o inner))
StripMatch(s, le, clean, m) ==
    IF m.kind = "none"
    THEN [clean |-> clean \o From(s, le + 1), fmt_ranges |-> <<>>]
    ELSE StripInner(s, m, clean \o Slice(s, le + 1, m.start - 1),
                    Slice(s, m.istart, m.iend))
StripFrom(s, le, clean) == StripMatch(s, le, clean, NextMatch(s, le + 1))
_strip_inline_markers(s) == StripFrom(s, 0, <<>>)

\* a tuple of formats: (start, end, type, level, is_consecutive)
Format(a, b, t, level, cons) ==
    [start |-> a, end |-> b, type |-> t, level |-> level, is_consecutive |-> cons]

\* the tuples inline_formats gets for the ranges of a line that starts at a
InlineFormats(a, fmt_ranges) ==
    [k \in 1..Len(fmt_ranges) |->
        [start |-> a + fmt_ranges[k].fs, end |-> a + fmt_ranges[k].fe,
         style |-> fmt_ranges[k].style]]

\* the line the loop is at, and the line after line.rstrip()
GRaw == lines[g_pos + 1]
GLine == RStrip(GRaw)

UploadLoop == pc = "upload" /\ g_pos < Len(lines)

\* the line is outside a code block and not empty
UploadPlain ==
    /\ UploadLoop
    /\ ~StartsWith(Strip(GRaw), <<BT, BT, BT>>)
    /\ ~g_in_code_block
    /\ GLine # <<>>

docxOther == <<lines, lang, transVars, inlineVars, docxVars>>

\* a fence line toggles in_code_block
UploadFence ==
    /\ UploadLoop
    /\ StartsWith(Strip(GRaw), <<BT, BT, BT>>)
    /\ g_in_code_block' = ~g_in_code_block
    /\ g_pos' = g_pos + 1
    /\ UNCHANGED <<pc, full_text, formats, inline_formats, current_offset,
                   prev_type, start, requests_list, docxOther>>

\* a line inside a code block: its range starts at `start`, which the loop
\* binds only at a line outside a code block; before that the read raises
UploadCodeLine ==
    /\ UploadLoop
    /\ ~StartsWith(Strip(GRaw), <<BT, BT, BT>>)
    /\ g_in_code_block
    /\ \E content \in {GRaw \o <<NL>>} :
        /\ full_text' = full_text \o content
        /\ IF start = Unbound
           THEN /\ pc' = "UnboundLocalError"
                /\ UNCHANGED <<g_pos, formats, current_offset, prev_type>>
           ELSE /\ formats' = Append(formats,
                        Format(start, start + Len(content), "CODE_BLOCK", 0, FALSE))
                /\ current_offset' = current_offset + Len(content)
                /\ prev_type' = "CODE_BLOCK"
                /\ g_pos' = g_pos + 1
                /\ UNCHANGED pc
    /\ UNCHANGED <<inline_formats, g_in_code_block, start, requests_list, docxOther>>

\* an empty line
UploadBlank ==
    /\ UploadLoop
    /\ ~StartsWith(Strip(GRaw), <<BT, BT, BT>>)
    /\ ~g_in_code_block
    /\ GLine = <<>>
    /\ g_pos' = g_pos + 1
    /\ UNCHANGED <<pc, full_text, formats, inline_formats, current_offset,
                   g_in_code_block, prev_type, start, requests_list, docxOther>>

\* the part the branches share: the clean text of raw_content goes to the
\* document with a line break, its range to formats, its inline ranges to
\* inline_formats
Written(raw_content, type, level, cons, next_type) ==
    \E r \in {_strip_inline_markers(raw_content)}, a \in {1 + current_offset} :
        /\ full_text' = full_text \o r.clean \o <<NL>>
        /\ formats' = Append(formats, Format(a, a + Len(r.clean) + 1, type, level, cons))
        /\ inline_formats' = inline_formats \o InlineFormats(a, r.fmt_ranges)
        /\ current_offset' = current_offset + Len(r.clean) + 1
        /\ start' = a
        /\ prev_type' = next_type
        /\ g_pos' = g_pos + 1
        /\ UNCHANGED <<pc, g_in_code_block, requests_list, docxOther>>

\* is_consecutive: the heading follows a heading
IsConsecutive == prev_type = "HEADING"

\* a line that starts with "#"
UploadHeading ==
    /\ UploadPlain
    /\ StartsWith(GLine, <<"#">>)
    /\ \E parts \in {Split(GLine, <<" ">>)} :
           Written(JoinSpace(Tail(parts)), "HEADING", Len(parts[1]),
                   IsConsecutive, "HEADING")

\* a line that starts with ">"
UploadBlockquote ==
    /\ UploadPlain
    /\ ~StartsWith(GLine, <<"#">>)
    /\ StartsWith(GLine, <<">">>)
    /\ Written(Strip(LStripChars(GLine, {">"})), "BLOCKQUOTE", 0, FALSE, "BLOCKQUOTE")

UploadIsRule(line) ==
    StartsWith(line, <<"-", "-", "-">>) \/ StartsWith(line, <<"*", "*", "*">>)

\* a line that starts with "---" or "***"
UploadRule ==
    /\ UploadPlain
    /\ ~StartsWith(GLine, <<"#">>)
    /\ ~StartsWith(GLine, <<">">>)
    /\ UploadIsRule(GLine)
    /\ \E a \in {1 + current_offset} :
        /\ full_text' = full_text \o <<"-", "-", "-", NL>>
        /\ formats' = Append(formats, Format(a, a + 4, "NORMAL", 0, FALSE))
        /\ current_offset' = current_offset + 4
        /\ start' = a
    /\ prev_type' = "NORMAL"
    /\ g_pos' = g_pos + 1
    /\ UNCHANGED <<pc, inline_formats, g_in_code_block, requests_list, docxOther>>

\* the line reaches the list branches
UploadListable ==
    /\ UploadPlain
    /\ ~StartsWith(GLine, <<"#">>)
    /\ ~StartsWith(GLine, <<">">>)
    /\ ~UploadIsRule(GLine)

\* a line that starts with "- "
UploadBullet ==
    /\ UploadListable
    /\ StartsWith(GLine, <<"-", " ">>)
    /\ Written(From(GLine, 3), "BULLET", 0, FALSE, "BULLET")

\* line[0].isdigit() and ". " in line
UploadIsNumber(line) == line[1] \in DIGITS /\ Contains(line, <<".", " ">>)

\* a numbered line: the content is what follows the first ". "
UploadNumber ==
    /\ UploadListable
    /\ ~StartsWith(GLine, <<"-", " ">>)
    /\ UploadIsNumber(GLine)
    /\ Written(From(GLine, FirstAt(GLine, <<".", " ">>, 1) + 2),
               "NUMBER", 0, FALSE, "NUMBER")

\* any other line: a continuation of a list item when it is indented and
\* follows one, a normal paragraph otherwise
UploadText ==
    /\ UploadListable
    /\ ~StartsWith(GLine, <<"-", " ">>)
    /\ ~UploadIsNumber(GLine)
    /\ IF IsIndented(GLine) /\ prev_type \in {"BULLET", "NUMBER", "BULLET_CONT"}
       THEN Written(Strip(GLine), "BULLET_CONT", 0, FALSE, "BULLET_CONT")
       ELSE Written(Strip(GLine), "NORMAL", 0, FALSE, "NORMAL")

(***************************************************************************)
(* google_docs_manager.py: the requests of upload_markdown_content.  A     *)
(* request is a record; a key the request does not carry holds "NONE",     *)
(* Unset, FALSE or the empty sequence.                                     *)
(***************************************************************************)
NoRequest ==
    [kind |-> "NONE", startIndex |-> 0, endIndex |-> 0, text |-> <<>>,
     namedStyleType |-> "NONE", alignment |-> "NONE", direction |-> "NONE",
     spaceBelow |-> Unset, spaceAbove |-> Unset, lineSpacing |-> Unset,
     indentStart |-> Unset, bulletPreset |-> "NONE",
     fontFamily |-> "NONE", fontSize |-> Unset,
     bold |-> FALSE, italic |-> FALSE, underline |-> FALSE, url |-> NoneUrl,
     foregroundColor |-> "NONE", backgroundColor |-> "NONE", fields |-> <<>>]

Ranged(kind, a, b) ==
    [NoRequest EXCEPT !.kind = kind, !.startIndex = a, !.endIndex = b]

FontFamily(lg) ==
    IF lg = "zh" THEN "Noto Serif SC"
    ELSE IF lg = "ar" THEN "Amiri" ELSE "Times New Roman"

\* 1. Insert all text
InsertTextRequest(t) ==
    [NoRequest EXCEPT !.kind = "insertText", !.startIndex = 1, !.text = t]

\* 2. Common styles
CommonRequests(total_len, lg) ==
    << [Ranged("updateTextStyle", 1, 1 + total_len)
           EXCEPT !.fontFamily = FontFamily(lg), !.fontSize = 12,
                  !.fields = <<"weightedFontFamily", "fontSize">>],
       IF lg \in RTL_LANGS
       THEN [Ranged("updateParagraphStyle", 1, 1 + total_len)
                EXCEPT !.direction = "RIGHT_TO_LEFT", !.alignment = "END",
                       !.spaceBelow = 8, !.spaceAbove = 0, !.lineSpacing = 130,
                       !.fields = <<"direction", "alignment", "spaceBelow",
                                    "spaceAbove", "lineSpacing">>]
       ELSE [Ranged("updateParagraphStyle", 1, 1 + total_len)
                EXCEPT !.alignment = "JUSTIFIED",
                       !.spaceBelow = 10, !.spaceAbove = 0, !.lineSpacing = 115,
                       !.fields = <<"alignment", "spaceBelow", "spaceAbove",
                                    "lineSpacing">>] >>

\* the named style of a heading of the given level
NamedStyle(level) ==
    IF level = 1 THEN "TITLE"
    ELSE <<"HEADING_1", "HEADING_2", "HEADING_3", "HEADING_4", "HEADING_5",
           "HEADING_6">>[IF level - 1 < 6 THEN level - 1 ELSE 6]

\* 3. Block-level styles: the requests of one tuple of formats
HeadingRequests(f, lg) ==
    << [Ranged("updateParagraphStyle", f.start, f.end)
           EXCEPT !.namedStyleType = NamedStyle(f.level),
                  !.alignment = IF f.level = 1 THEN "CENTER"
                                ELSE IF lg \in RTL_LANGS THEN "END" ELSE "START",
                  !.spaceBelow = IF f.is_consecutive THEN 4
                                 ELSE IF f.level = 1 THEN 36 ELSE 8,
                  !.spaceAbove = IF f.is_consecutive THEN 6
                                 ELSE IF f.level = 1 THEN 0 ELSE 36,
                  !.fields = <<"namedStyleType", "alignment", "spaceBelow",
                               "spaceAbove">>],
       [Ranged("updateTextStyle", f.start, f.end)
           EXCEPT !.fontFamily = FontFamily(lg),
                  !.fields = <<"weightedFontFamily">>] >>

BlockquoteRequests(f) ==
    << [Ranged("updateParagraphStyle", f.start, f.end)
           EXCEPT !.indentStart = 36, !.spaceBelow = 4, !.spaceAbove = 4,
                  !.fields = <<"indentStart", "spaceBelow", "spaceAbove">>],
       [Ranged("updateTextStyle", f.start, f.end)
           EXCEPT !.italic = TRUE, !.foregroundColor = "GREY",
                  !.fields = <<"italic", "foregroundColor">>] >>

BlockRequests(f, lg) ==
    (CASE f.type = "HEADING" -> HeadingRequests(f, lg)
       [] f.type = "BLOCKQUOTE" -> BlockquoteRequests(f)
       [] f.type = "CODE_BLOCK" -> <<>>
       [] f.type = "BULLET_CONT" ->
            << [Ranged("updateParagraphStyle", f.start, f.end)
                   EXCEPT !.indentStart = 36, !.fields = <<"indentStart">>] >>
       [] f.type = "BULLET" ->
            << [Ranged("createParagraphBullets", f.start, f.end)
                   EXCEPT !.bulletPreset = "BULLET_DISC_CIRCLE_SQUARE"] >>
       [] f.type = "NUMBER" ->
            << [Ranged("createParagraphBullets", f.start, f.end)
                   EXCEPT !.bulletPreset = "NUMBERED_DECIMAL_ALPHA_ROMAN"] >>
       [] OTHER -> <<>>)
    \o (IF lg \in RTL_LANGS /\ f.type \in {"BULLET", "NUMBER"}
        THEN << [Ranged("updateParagraphStyle", f.start, f.end)
                    EXCEPT !.direction = "RIGHT_TO_LEFT", !.alignment = "END",
                           !.fields = <<"direction", "alignment">>] >>
        ELSE <<>>)

\* 4. Inline formatting: the request of one tuple of inline_formats
InlineRequests(f) ==
    LET s == f.style
        fields == (IF s.bold THEN <<"bold">> ELSE <<>>)
                  \o (IF s.italic THEN <<"italic">> ELSE <<>>)
                  \o (IF s.code THEN <<"weightedFontFamily", "backgroundColor">> ELSE <<>>)
                  \o (IF s.link # NoneUrl
                      THEN <<"link", "foregroundColor", "underline">> ELSE <<>>)
    IN  IF fields = <<>> THEN <<>>
        ELSE << [Ranged("updateTextStyle", f.start, f.end)
                    EXCEPT !.bold = s.bold, !.italic = s.italic,
                           !.fontFamily = IF s.code THEN "Courier New" ELSE "NONE",
                           !.backgroundColor = IF s.code THEN "GREY" ELSE "NONE",
                           !.url = s.link,
                           !.foregroundColor = IF s.link # NoneUrl THEN "BLUE" ELSE "NONE",
                           !.underline = s.link # NoneUrl,
                           !.fields = fields] >>

\* the same requests with the loop over inline_formats ahead of the loop over
\* formats
AllRequestsInlineFirst(t, fs, ifs, lg) ==
    <<InsertTextRequest(t)>>
    \o CommonRequests(Len(t), lg)
    \o Concat([k \in 1..Len(ifs) |-> InlineRequests(ifs[k])])
    \o Concat([k \in 1..Len(fs) |-> BlockRequests(fs[k], lg)])
\* the requests after the loop over lines, in the order they are appended
AllRequests(t, fs, ifs, lg) ==
    <<InsertTextRequest(t)>>
    \o CommonRequests(Len(t), lg)
    \o Concat([k \in 1..Len(fs) |-> BlockRequests(fs[k], lg)])
    \o Concat([k \in 1..Len(ifs) |-> InlineRequests(ifs[k])])

\* the end of the loop: the requests are built and sent
UploadRequests ==
    /\ pc = "upload"
    /\ g_pos = Len(lines)
    /\ \E rs \in {AllRequests(full_text, formats, inline_formats, lang)} :
           requests_list' = rs
    /\ pc' = "uploaded"
    /\ UNCHANGED <<g_pos, full_text, formats, inline_formats, current_offset,
                   g_in_code_block, prev_type, start, docxOther>>

(***************************************************************************)
(* The documents the upload function is run on.                            *)
(***************************************************************************)
MaxGLines == 3

G_emph == <<"*", "e", "*">>
GLinePool == {L_blank, L_hr, L_fence, D_title, D_section, D_sub, D_bullet,
              D_number, D_quote, D_indent, D_body, G_emph}

InitG ==
    /\ pc = "upload"
    /\ lines \in Docs(GLinePool, MaxGLines)
    /\ lang \in DLangs
    /\ TransIdle
    /\ InlineIdle
    /\ DocxIdle
    /\ UploadIdle

NextG ==
    \/ UploadFence
    \/ UploadCodeLine
    \/ UploadBlank
    \/ UploadHeading
    \/ UploadBlockquote
    \/ UploadRule
    \/ UploadBullet
    \/ UploadNumber
    \/ UploadText
    \/ UploadRequests

SpecG == InitG /\ [][NextG]_vars

(***************************************************************************)
(* Properties of the page-layout function, convert_markdown_to_docx.       *)
(***************************************************************************)
\* the paragraphs written for a heading line
HeadingBlocks == {k \in 1..Len(doc) : doc[k].kind \in {"title", "heading"}}

\* the number of "#" of the line a paragraph was written for
SourceLevel(k) == HeadingHashes(lines[doc[k].src])

\* the paragraphs written for a level-1 heading line
TopBlocks == {k \in HeadingBlocks : SourceLevel(k) = 1}

\* C6: a title paragraph is written at most once, for the first level-1
\* heading of the document; every later level-1 heading is written as an
\* ordinary heading of rank 1 (style "Heading 1"), never as a second title.
C6_TitleAtMostOnce ==
    /\ Cardinality({k \in 1..Len(doc) : doc[k].kind = "title"}) <= 1
    /\ title_written <=> (\E k \in 1..Len(doc) : doc[k].kind = "title")
    /\ \A k \in 1..Len(doc) : doc[k].kind = "title" => k \in TopBlocks
    /\ \A k \in TopBlocks :
          IF k = Min(TopBlocks)
          THEN doc[k].kind = "title" /\ doc[k].style = "Normal"
          ELSE /\ doc[k].kind = "heading"
               /\ doc[k].level = 1
               /\ doc[k].style = "Heading 1"

\* the document is saved with a title and, after it, a second level-1 heading
C6_Witness ==
    /\ pc = "saved"
    /\ \E j, k \in TopBlocks :
          /\ j < k
          /\ doc[j].kind = "title"
          /\ doc[k].kind = "heading"
          /\ doc[k].style = "Heading 1"

\* a `# ` heading line
IsTitleLine(line) == HEADING_RE(line) /\ HeadingHashes(line) = 1

\* a heading line of level 2 to 6
IsSectionLine(line) == HEADING_RE(line) /\ HeadingHashes(line) \in 2..6

\* an unindented `- ` bullet line with no " - " inside its item
IsPlainBulletLine(line) ==
    /\ StartsWith(line, <<"-", " ">>)
    /\ Strip(From(line, 3)) # <<>>
    /\ ~Contains(Strip(From(line, 3)), <<" ", "-", " ">>)

\* a first `# ` heading, then headings of level 2 to 6, bullet lines and
\* blank lines
TitleHeadingsBullets ==
    /\ Len(lines) >= 1
    /\ IsTitleLine(lines[1])
    /\ \A k \in 2..Len(lines) :
          \/ Strip(lines[k]) = <<>>
          \/ IsSectionLine(lines[k])
          \/ IsPlainBulletLine(lines[k])

\* the indexes of the lines that are not blank, in order
NonBlank == SelectSeq([k \in 1..Len(lines) |-> k], LAMBDA k : Strip(lines[k]) # <<>>)

\* the block expected for a line
ExpectedBlock(p, line) ==
    IF IsTitleLine(line) THEN p.kind = "title"
    ELSE IF IsSectionLine(line)
    THEN /\ p.kind = "heading"
         /\ p.level = HeadingHashes(line) - 1
         /\ p.style = HeadingStyle(HeadingHashes(line) - 1)
    ELSE p.kind = "bullet" /\ p.level = 0

\* C8: for a document made of a first `# ` heading followed by headings of
\* level 2 to 6 and unindented `- ` bullet lines, the saved document holds
\* exactly one block per non-blank line, in source order: the title, a heading
\* of rank (level - 1) for a heading of that level, a level-0 bullet for a
\* bullet line.
C8_OneBlockPerLine ==
    (pc = "saved" /\ TitleHeadingsBullets) =>
        /\ Len(doc) = Len(NonBlank)
        /\ \A k \in 1..Len(doc) :
              /\ doc[k].src = NonBlank[k]
              /\ ExpectedBlock(doc[k], lines[NonBlank[k]])

\* `# T`, `## S`, `- a` is saved as a title, a heading of rank 1 and a bullet
C8_Witness ==
    /\ pc = "saved"
    /\ lines = <<D_title, D_section, D_bullet>>
    /\ Len(doc) = 3
    /\ doc[1].kind = "title"
    /\ doc[2].kind = "heading" /\ doc[2].level = 1
    /\ doc[3].kind = "bullet" /\ doc[3].level = 0

\* C9, for a right-to-left language: every paragraph the page-layout function
\* writes is right-aligned, carries the right-to-left flag on itself and on
\* its runs, and has its indentation on the right side, none on the left.
C9_RtlParagraphsMirrored ==
    _is_rtl(lang) =>
        \A k \in 1..Len(doc) :
            doc[k].kind # "table" =>
                /\ doc[k].alignment = "RIGHT"
                /\ doc[k].bidi
                /\ doc[k].runs # <<>> => doc[k].run_rtl
                /\ doc[k].left_indent \in {Unset, 0}

\* two blocks written as ordinary headings, one after the other, with nothing
\* but blank lines between the two heading lines
HeadingsInARow(j, k) ==
    /\ doc[j].kind = "heading"
    /\ doc[k].kind = "heading"
    /\ k = j + 1
    /\ \A i \in (doc[j].src + 1)..(doc[k].src - 1) : Strip(lines[i]) = <<>>

\* C10, for the page-layout function: whenever two headings follow each other
\* with no content between them, blank lines not counting as content, the
\* first heading's space after is 4 and the second heading's space before is 6.
C10_ConsecutiveHeadingsCompressed ==
    \A j, k \in 1..Len(doc) :
        HeadingsInARow(j, k) =>
            /\ doc[j].space_after = 4
            /\ doc[k].space_before = 6

(***************************************************************************)
(* Properties of the upload function, upload_markdown_content.             *)
(***************************************************************************)
\* the tuples of formats of the level-1 headings, by their place in formats
TopFormats == {k \in 1..Len(formats) :
                  formats[k].type = "HEADING" /\ formats[k].level = 1}

\* the named style the requests give the range of the k-th tuple of formats
NamedStylesOf(k) ==
    {requests_list[q].namedStyleType : q \in
        {q \in 1..Len(requests_list) :
            /\ requests_list[q].kind = "updateParagraphStyle"
            /\ requests_list[q].namedStyleType # "NONE"
            /\ requests_list[q].startIndex = formats[k].start
            /\ requests_list[q].endIndex = formats[k].end}}

\* C7: in the requests of the upload function only the first level-1 heading
\* of the document gets the named style TITLE; every later level-1 heading
\* gets the named style of an ordinary heading of rank 1.
C7_OnlyFirstHeadingIsTitle ==
    pc = "uploaded" =>
        \A k \in TopFormats :
            IF k = Min(TopFormats)
            THEN NamedStylesOf(k) = {"TITLE"}
            ELSE NamedStylesOf(k) = {"HEADING_1"}

(***************************************************************************)
(* translation_pipeline.py: process_source_file gives the lines of one     *)
(* language to convert_markdown_to_docx and then to                        *)
(* upload_markdown_content.                                                *)
(***************************************************************************)
\* generate_docx_document has returned: the same lines go to the upload
UploadAfterDocx ==
    /\ pc = "saved"
    /\ pc' = "upload"
    /\ UNCHANGED <<lines, lang, transVars, inlineVars, docxVars, uploadVars>>

MaxBLines == 3

\* lines of "-" and "*" only, and a line that starts with "---"
R_stars == <<"*", "*", "*">>
R_long  == <<"-", "-", "-", "-">>
R_text  == <<"-", "-", "-", "x">>

BLinePool == DLinePool \cup {G_emph, R_stars, R_long, R_text}

InitB ==
    /\ pc = "docx"
    /\ lines \in Docs(BLinePool, MaxBLines)
    /\ lang \in DLangs
    /\ TransIdle
    /\ InlineIdle
    /\ DocxIdle
    /\ UploadIdle

NextB ==
    \/ DocxFence
    \/ DocxCodeLine
    \/ DocxTableRow
    \/ DocxHeading
    \/ DocxBlank
    \/ DocxBlockquote
    \/ DocxRule
    \/ DocxNumbered
    \/ DocxAlpha
    \/ DocxBullet
    \/ DocxContinuation
    \/ DocxBody
    \/ DocxFinish
    \/ UploadAfterDocx
    \/ UploadFence
    \/ UploadCodeLine
    \/ UploadBlank
    \/ UploadHeading
    \/ UploadBlockquote
    \/ UploadRule
    \/ UploadBullet
    \/ UploadNumber
    \/ UploadText
    \/ UploadRequests

SpecB == InitB /\ [][NextB]_vars

(***************************************************************************)
(* Properties of the two emitters on the same lines.                       *)
(***************************************************************************)
\* the indexes of the lines, in order
LineIndexes == [k \in 1..Len(lines) |-> k]

\* line k follows an opening fence that no earlier line has closed
OpenFence(ls, k) ==
    /\ ~IsFenceLine(ls[k])
    /\ Cardinality({j \in 1..(k - 1) : IsFenceLine(ls[j])}) % 2 = 1

\* convert_markdown_to_docx has returned
DocxDone == pc \in {"saved", "upload", "uploaded", "UnboundLocalError"}

\* upload_markdown_content has returned or raised
UploadDone == pc \in {"uploaded", "UnboundLocalError"}

\* the paragraphs written for line k
BlocksOf(k) == {j \in 1..Len(doc) : doc[j].src = k}

\* the page-layout function: one paragraph per fenced line, holding the line
\* in one run without any style; none for a fence line
DocxCodeVerbatim ==
    /\ \A k \in 1..Len(lines) :
          /\ InFence(lines, k) =>
                /\ Cardinality(BlocksOf(k)) = 1
                /\ \A j \in BlocksOf(k) :
                      /\ doc[j].kind = "code"
                      /\ doc[j].runs = IF lines[k] = <<>> THEN <<>>
                                       ELSE <<Segment(lines[k], FALSE, FALSE, FALSE, NoneUrl)>>
          /\ IsFenceLine(lines[k]) => BlocksOf(k) = {}
    /\ \A i, j \in 1..Len(doc) :
          (i < j /\ doc[i].kind = "code" /\ doc[j].kind = "code") =>
              doc[i].src < doc[j].src

\* the text the upload function sends: the text of its insertText request
EmittedText == IF requests_list = <<>> THEN <<>> ELSE requests_list[1].text

\* the lines of the text sent, the empty rest after the last line break left out
BufferLines ==
    LET ls == Split(EmittedText, <<NL>>) IN SubSeq(ls, 1, Len(ls) - 1)

\* the lines the upload function has a buffer line for: the lines of a code
\* block, and outside a code block the lines that are not blank
UploadEmits(k) ==
    /\ ~IsFenceLine(lines[k])
    /\ OpenFence(lines, k) \/ RStrip(lines[k]) # <<>>
EmittedIndexes == SelectSeq(LineIndexes, UploadEmits)

\* the range of the j-th buffer line in the text sent, its line break included
BufferStart(j) ==
    1 + Len(Concat([i \in 1..(j - 1) |-> BufferLines[i] \o <<NL>>]))
BufferEnd(j) == BufferStart(j) + Len(BufferLines[j]) + 1

\* the requests that style a span of text inside a line
IsSpanStyle(q) ==
    /\ q.kind = "updateTextStyle"
    /\ q.bold \/ q.italic \/ q.underline \/ q.url # NoneUrl
          \/ q.fontFamily = "Courier New"

\* the upload function: no buffer line for a fence line; a fenced line is
\* sent as it is, at its place among the lines sent, and no span request
\* touches it
UploadCodeVerbatim ==
    /\ Len(BufferLines) <= Len(EmittedIndexes)
    /\ \A j \in 1..Len(EmittedIndexes) :
          InFence(lines, EmittedIndexes[j]) =>
              /\ j <= Len(BufferLines)
              /\ BufferLines[j] = lines[EmittedIndexes[j]]
              /\ \A q \in 1..Len(requests_list) :
                    IsSpanStyle(requests_list[q]) =>
                        \/ requests_list[q].endIndex <= BufferStart(j)
                        \/ requests_list[q].startIndex >= BufferEnd(j)

\* C11: in both emitters every line between an opening and a closing fence,
\* a blank line included, is emitted as exactly one paragraph (page layout) or
\* one buffer line (upload) holding the source line verbatim, with no inline
\* span applied to it, and no fence line is emitted.
C11_FencedLinesVerbatim ==
    /\ DocxDone => DocxCodeVerbatim
    /\ UploadDone => UploadCodeVerbatim

\* the same for the runs of the upload function that reach the request batch
FencedLinesVerbatimWhenUploaded ==
    /\ DocxDone => DocxCodeVerbatim
    /\ pc = "uploaded" => UploadCodeVerbatim

(***************************************************************************)
(* Tables of the page-layout function.                                     *)
(***************************************************************************)
\* line k is a table row the loop accumulates: a row outside a code block
IsRowLine(k) ==
    /\ k \in 1..Len(lines)
    /\ TABLE_ROW_RE(lines[k])
    /\ ~IsFenceLine(lines[k])
    /\ ~OpenFence(lines, k)

\* lines a..b are a run of table rows that ends: no row before it, none after
TableRun(a, b) ==
    /\ a <= b
    /\ \A k \in a..b : IsRowLine(k)
    /\ ~IsRowLine(a - 1)
    /\ ~IsRowLine(b + 1)

\* the tables written for the run that starts at line a
TablesOf(a) == {j \in 1..Len(doc) : doc[j].kind = "table" /\ doc[j].src = a}

\* the rows of the run after its first that are no separator rows
DataLines(a, b) ==
    SelectSeq([k \in 1..(b - a) |-> a + k], LAMBDA k : ~TABLE_SEP_RE(lines[k]))

\* C12: when a run of table-row lines has ended, a run of two or more rows is
\* written as one table whose header is the first row of the run and whose
\* rows are the later rows that are no separator rows; a run of one row is
\* written as body text, not as a table; no separator row is rendered as a
\* row of a table.
C12_TableRunsEmitted ==
    pc = "saved" =>
        /\ \A a, b \in 1..Len(lines) :
              TableRun(a, b) =>
                  /\ (b > a /\ ~TABLE_SEP_RE(lines[a])) =>
                        /\ Cardinality(TablesOf(a)) = 1
                        /\ \A j \in TablesOf(a) :
                              /\ doc[j].header = RowCells(lines[a])
                              /\ Len(doc[j].rows) = Len(DataLines(a, b))
                  /\ b = a =>
                        /\ TablesOf(a) = {}
                        /\ \E j \in 1..Len(doc) :
                              /\ doc[j].kind \in {"body", "continuation"}
                              /\ doc[j].src <= a
        /\ \A j \in 1..Len(doc) :
              doc[j].kind = "table" => ~TABLE_SEP_RE(lines[doc[j].src])

(***************************************************************************)
(* Ranges and requests of the upload function.                             *)
(***************************************************************************)
\* the lines of full_text, each one the text of a block without its line break
FullLines ==
    LET ls == Split(full_text, <<NL>>) IN SubSeq(ls, 1, Len(ls) - 1)

\* the index in the document of the first character of the k-th line of
\* full_text, the document starting at index 1
BlockStart(k) == 1 + Len(Concat([i \in 1..(k - 1) |-> FullLines[i] \o <<NL>>]))

\* C13: every range recorded in formats is 1-based, is the place of its
\* block's text and line break in full_text (start = 1 + the length of the
\* text before the block, end = start + the length of the block), and the
\* ranges of two blocks do not overlap; code-block lines included.
C13_RangesMatchText ==
    \A k \in 1..Len(formats) :
        /\ formats[k].start >= 1
        /\ k <= Len(FullLines)
        /\ formats[k].start = BlockStart(k)
        /\ formats[k].end = BlockStart(k) + Len(FullLines[k]) + 1
        /\ \A j \in 1..(k - 1) : formats[j].end <= formats[k].start

\* a request over the whole text: the base style of the document
IsBaseRequest(q) ==
    /\ q.kind \in {"updateTextStyle", "updateParagraphStyle"}
    /\ q.startIndex = 1
    /\ q.endIndex = 1 + Len(full_text)
    /\ q.fontSize = 12 \/ q.lineSpacing # Unset

\* a request over the range of a block that has requests
IsBlockRequest(q) ==
    \E k \in 1..Len(formats) :
        /\ formats[k].type # "CODE_BLOCK"
        /\ q.startIndex = formats[k].start
        /\ q.endIndex = formats[k].end

\* a request over the range of an inline span
IsInlineRequest(q) ==
    /\ q.kind = "updateTextStyle"
    /\ \E k \in 1..Len(inline_formats) :
          /\ q.startIndex = inline_formats[k].start
          /\ q.endIndex = inline_formats[k].end

\* C14: the batch of requests is ordered: the insertion of the text, then the
\* base text style and the base paragraph style of the whole document, then
\* the requests of the blocks in block order, then the requests of the inline
\* spans; no span request comes before a block request and no block request
\* before the base style.
C14_RequestsOrdered ==
    pc = "uploaded" =>
        /\ Len(requests_list) >= 3
        /\ requests_list[1].kind = "insertText"
        /\ requests_list[2].kind = "updateTextStyle"
        /\ requests_list[3].kind = "updateParagraphStyle"
        /\ IsBaseRequest(requests_list[2])
        /\ IsBaseRequest(requests_list[3])
        /\ \A p \in 4..Len(requests_list) :
              /\ requests_list[p].kind # "insertText"
              /\ IsBlockRequest(requests_list[p]) # IsInlineRequest(requests_list[p])
        /\ \A p, q \in 4..Len(requests_list) :
              /\ (IsInlineRequest(requests_list[p]) /\ IsBlockRequest(requests_list[q]))
                    => q < p
              /\ (p < q /\ IsBlockRequest(requests_list[p])
                        /\ IsBlockRequest(requests_list[q]))
                    => requests_list[p].startIndex <= requests_list[q].startIndex

\* a batch is sent in which the request of a span comes after the request of
\* a block that lies behind the span in the text
C14_Witness ==
    /\ pc = "uploaded"
    /\ \E p, q \in 4..Len(requests_list) :
          /\ p < q
          /\ IsBlockRequest(requests_list[p])
          /\ IsInlineRequest(requests_list[q])
          /\ requests_list[q].endIndex <= requests_list[p].startIndex

(***************************************************************************)
(* translation_pipeline.py: process_source_file, the loop over the target  *)
(* languages.  A file written or a document uploaded is recorded with the  *)
(* place of its language in langs (0 for the original) and its lines.      *)
(***************************************************************************)
LANG_MAP == [code \in {"EN-GB", "FR", "AR", "ZH"} |->
                CASE code = "EN-GB" -> "en"
                  [] code = "FR"    -> "fr"
                  [] code = "AR"    -> "ar"
                  [] code = "ZH"    -> "zh"]

\* short = LANG_MAP.get(lang_code, ...)
Short(lang_code) == LANG_MAP[lang_code]

Output(idx, lg, content) == [idx |-> idx, lang |-> lg, content |-> content]

\* the local output of one language: the .md file and its DOCX
LocalOutput(idx, lg, content) ==
    IF ~no_local THEN Append(written, Output(idx, lg, content)) ELSE written

\* the Google Docs output of one language; the upload runs in a try block
\* of its own, so a failed upload leaves no document and goes on
GoogleOutput(idx, lg, content, ok) ==
    IF use_google /\ ok THEN Append(uploaded, Output(idx, lg, content)) ELSE uploaded

procOther == <<lines, fallbackVars, inlineVars, docxVars, uploadVars>>

\* 1. Handle original Spanish file
OriginalOutput ==
    /\ pc = "collected"
    /\ texts_to_translate # <<>>
    /\ written' = LocalOutput(0, "es", lines)
    /\ \E ok \in BOOLEAN : uploaded' = GoogleOutput(0, "es", lines, ok)
    /\ pc' = "loop"
    /\ UNCHANGED <<lang, parsed, texts_to_translate, translated, out, t_idx, r_pos,
                   langs, lang_pos, no_local, use_google, outcomes, procOther>>

\* what the translator may give back: one text per text, or a text too few
Returned(ts) ==
    {TranslateAll(mode, ts) : mode \in TransModes}
        \cup {SubSeq(TranslateAll("tagged", ts), 1, Len(ts) - 1)}

\* translated = translator.translate(texts_to_translate, lang_code) returns
LangTranslate ==
    /\ pc = "loop"
    /\ lang_pos < Len(langs)
    /\ lang' = Short(langs[lang_pos + 1])
    /\ translated' \in Returned(texts_to_translate)
    /\ out' = <<>>
    /\ t_idx' = 0
    /\ r_pos' = 0
    /\ pc' = "rebuild"
    /\ UNCHANGED <<parsed, texts_to_translate, procVars, procOther>>

\* where the loop goes on after `except Exception`: continue
AfterExceptReturns == "returned"
AfterExcept == "loop"

\* translator.translate raises: except Exception, continue
LangTranslateRaises ==
    /\ pc = "loop"
    /\ lang_pos < Len(langs)
    /\ lang' = Short(langs[lang_pos + 1])
    /\ outcomes' = Append(outcomes, "translate raised")
    /\ lang_pos' = lang_pos + 1
    /\ pc' = AfterExcept
    /\ UNCHANGED <<parsed, texts_to_translate, translated, out, t_idx, r_pos,
                   langs, no_local, use_google, written, uploaded, procOther>>

\* rebuild_markdown_from_translations raises: except Exception, continue
RebuildRaises ==
    /\ pc = "IndexError"
    /\ lang_pos < Len(langs)
    /\ outcomes' = Append(outcomes, "rebuild raised")
    /\ lang_pos' = lang_pos + 1
    /\ pc' = AfterExcept
    /\ UNCHANGED <<lang, parsed, texts_to_translate, translated, out, t_idx, r_pos,
                   langs, no_local, use_google, written, uploaded, procOther>>

\* the local output and the Google Docs output of the language
LangOutput ==
    /\ pc = "rebuilt"
    /\ lang_pos < Len(langs)
    /\ written' = LocalOutput(lang_pos + 1, lang, out)
    /\ \E ok \in BOOLEAN : uploaded' = GoogleOutput(lang_pos + 1, lang, out, ok)
    /\ outcomes' = Append(outcomes, "ok")
    /\ lang_pos' = lang_pos + 1
    /\ pc' = "loop"
    /\ UNCHANGED <<lang, parsed, texts_to_translate, translated, out, t_idx, r_pos,
                   langs, no_local, use_google, procOther>>

\* the loop over langs is over
LangsDone ==
    /\ pc = "loop"
    /\ lang_pos = Len(langs)
    /\ pc' = "returned"
    /\ UNCHANGED <<lines, lang, transVars, inlineVars, docxVars, uploadVars>>

MaxPLines == 2
MaxLangs == 2

PLinePool == {L_bullet, L_body}
PLangs == {"FR", "AR"}

InitP ==
    /\ pc = "start"
    /\ lines \in Docs(PLinePool, MaxPLines)
    /\ lang = "es"
    /\ langs \in Docs(PLangs, MaxLangs)
    /\ no_local \in BOOLEAN
    /\ use_google \in BOOLEAN
    /\ parsed = <<>>
    /\ texts_to_translate = <<>>
    /\ translated = <<>>
    /\ out = <<>>
    /\ t_idx = 0
    /\ r_pos = 0
    /\ lang_pos = 0
    /\ written = <<>>
    /\ uploaded = <<>>
    /\ outcomes = <<>>
    /\ translators = <<>>
    /\ f_pos = 0
    /\ calls = <<>>
    /\ errors = <<>>
    /\ f_result = "None"
    /\ InlineIdle
    /\ DocxIdle
    /\ UploadIdle

NextP ==
    \/ Parse
    \/ Collect
    \/ NoTexts
    \/ OriginalOutput
    \/ LangTranslate
    \/ LangTranslateRaises
    \/ RebuildStep
    \/ RebuildReturn
    \/ RebuildRaises
    \/ LangOutput
    \/ LangsDone

SpecP == InitP /\ [][NextP]_vars

(***************************************************************************)
(* Properties of process_source_file.                                      *)
(***************************************************************************)
\* the outputs recorded for the language at place i of langs
OutputsOf(outs, i) == {k \in 1..Len(outs) : outs[k].idx = i}

\* C15: when the translation or the rebuild of one target language raises,
\* nothing is written or uploaded for that language, the parsed lines and the
\* texts to translate stay what they were, and the loop goes on: every
\* language of langs is taken, and a language whose translation and rebuild
\* succeed gets its local output.
C15_FailedLanguageIsolated ==
    /\ pc # "start" => parsed = parse_markdown_lines(lines)
    /\ pc \notin {"start", "parsed"} =>
          texts_to_translate = CollectTexts(parse_markdown_lines(lines))
    /\ Len(outcomes) = lang_pos
    /\ \A i \in 1..Len(outcomes) :
          IF outcomes[i] = "ok"
          THEN /\ ~no_local => Cardinality(OutputsOf(written, i)) = 1
               /\ \A k \in OutputsOf(written, i) : written[k].lang = Short(langs[i])
          ELSE /\ OutputsOf(written, i) = {}
               /\ OutputsOf(uploaded, i) = {}
    /\ (pc = "returned" /\ texts_to_translate # <<>>) => lang_pos = Len(langs)

\* the function has returned; a language whose translation or rebuild raised
\* has no output, and the language after it was translated, written and
\* uploaded
C15_Witness ==
    /\ pc = "returned"
    /\ \E i, j \in 1..Len(outcomes) :
          /\ i < j
          /\ outcomes[i] # "ok"
          /\ outcomes[j] = "ok"
          /\ OutputsOf(written, i) = {}
          /\ OutputsOf(written, j) # {}
          /\ OutputsOf(uploaded, j) # {}

(***************************************************************************)
(* Properties of the two scans over the lines of one document.             *)
(***************************************************************************)
\* C16: for every sequence of lines, the scan of convert_markdown_to_docx and
\* the scan of upload_markdown_content run to the end without raising: the
\* document is saved after the last line was taken, the requests are sent
\* after the last line was taken, and no scan stops at an exception.
C16_ScansNeverRaise ==
    /\ pc # "UnboundLocalError"
    /\ DocxDone => d_pos = Len(lines)
    /\ pc = "uploaded" => g_pos = Len(lines)

\* the (role, level) of a block of the page-layout function; the level is the
\* number of "#" for a heading, 0 for every other role
DocxRole(p) ==
    CASE p.kind \in {"title", "heading"} -> <<"heading", HeadingHashes(lines[p.src])>>
      [] p.kind = "quote"                -> <<"blockquote", 0>>
      [] OTHER                           -> <<p.kind, 0>>

\* the (role, level) of a tuple of formats of the upload function
UploadRole(f) ==
    CASE f.type = "HEADING"     -> <<"heading", f.level>>
      [] f.type = "BLOCKQUOTE"  -> <<"blockquote", 0>>
      [] f.type = "CODE_BLOCK"  -> <<"code", 0>>
      [] f.type = "BULLET"      -> <<"bullet", 0>>
      [] f.type = "NUMBER"      -> <<"number", 0>>
      [] f.type = "BULLET_CONT" -> <<"continuation", 0>>
      [] OTHER                  -> <<"body", 0>>

\* a stream of blocks with every run of body blocks and every run of
\* continuation blocks taken as one block: the page-layout function joins
\* such lines into one paragraph, the upload function writes one paragraph
\* per line
Merged(stream) ==
    LET keep(k) == \/ k = 1
                   \/ stream[k] # stream[k - 1]
                   \/ stream[k][1] \notin {"body", "continuation"}
        kept == SelectSeq([k \in 1..Len(stream) |-> k], keep)
    IN  [k \in 1..Len(kept) |-> stream[kept[k]]]

DocxStream == [k \in 1..Len(doc) |-> DocxRole(doc[k])]
UploadStream == [k \in 1..Len(formats) |-> UploadRole(formats[k])]

\* C17: for every sequence of lines, the sequence of (role, level) blocks the
\* upload function derives equals the sequence the page-layout function
\* derives from the same lines, runs of body lines and runs of continuation
\* lines counting as one block.
C17_SameBlockStream ==
    pc = "uploaded" => Merged(UploadStream) = Merged(DocxStream)

(***************************************************************************)
(* translators.py: FallbackTranslator.translate over providers that send   *)
(* one request each.  A provider is its class name and the answer the      *)
(* service gives its request.                                              *)
(***************************************************************************)
\* the answers of the service: the translations; the status of a used-up
\* quota (456 for DeepL, 403 for Azure); a failed request (a connection
\* error, a status raise_for_status rejects); a 200 answer whose JSON does
\* not hold the translations
Answers == {"translations", "quota", "request failed", "no translations"}

Provider(name, answer) == [name |-> name, answer |-> answer]

\* DeepLTranslator.translate, AzureTranslator.translate: what the call does.
\* No request is sent for an empty list of texts.
ProviderTranslate(t, texts) ==
    IF texts = <<>> THEN "returned"
    ELSE CASE t.answer = "translations"   -> "returned"
           [] t.answer = "quota"          -> "TranslationError"
           [] t.answer = "request failed" -> "TranslationError"
           [] t.answer = "no translations" ->
                IF t.name = "DeepLTranslator" THEN "KeyError" ELSE "TypeError"

fallbackOther == <<lines, lang, parsed, texts_to_translate, translated, out,
                   t_idx, r_pos, procVars, inlineVars, docxVars, uploadVars>>

\* the provider the loop is at
FallbackLoop == pc = "fallback" /\ f_pos < Len(translators)

\* return t.translate(texts, target_lang)
FallbackReturns ==
    /\ FallbackLoop
    /\ ProviderTranslate(translators[f_pos + 1], texts_to_translate) = "returned"
    /\ calls' = Append(calls, f_pos + 1)
    /\ f_pos' = f_pos + 1
    /\ f_result' = "returned"
    /\ pc' = "returned"
    /\ UNCHANGED <<translators, errors, fallbackOther>>

\* except TranslationError: the error is kept and the next provider is taken
FallbackNext ==
    /\ FallbackLoop
    /\ ProviderTranslate(translators[f_pos + 1], texts_to_translate) = "TranslationError"
    /\ calls' = Append(calls, f_pos + 1)
    /\ errors' = Append(errors, translators[f_pos + 1].name)
    /\ f_pos' = f_pos + 1
    /\ UNCHANGED <<pc, translators, f_result, fallbackOther>>

\* the provider raises something else: no except clause takes it
FallbackPropagates ==
    /\ FallbackLoop
    /\ \E r \in {ProviderTranslate(translators[f_pos + 1], texts_to_translate)} :
          /\ r \notin {"returned", "TranslationError"}
          /\ f_result' = r
    /\ calls' = Append(calls, f_pos + 1)
    /\ f_pos' = f_pos + 1
    /\ pc' = "raised"
    /\ UNCHANGED <<translators, errors, fallbackOther>>

\* after the loop: raise TranslationError("All translation providers failed")
FallbackAllFailed ==
    /\ pc = "fallback"
    /\ f_pos = Len(translators)
    /\ f_result' = "TranslationError"
    /\ pc' = "raised"
    /\ UNCHANGED <<translators, f_pos, calls, errors, fallbackOther>>

MaxProviders == 2

ProviderPool == {Provider(n, a) : n \in {"DeepLTranslator", "AzureTranslator"},
                                  a \in Answers}

\* FallbackTranslator.__init__ refuses an empty list
InitF ==
    /\ pc = "fallback"
    /\ lines = <<>>
    /\ lang \in {"FR"}
    /\ translators \in Docs(ProviderPool, MaxProviders) \ {<<>>}
    /\ texts_to_translate \in {<<>>, <<D_body>>}
    /\ parsed = <<>>
    /\ translated = <<>>
    /\ out = <<>>
    /\ t_idx = 0
    /\ r_pos = 0
    /\ langs = <<>>
    /\ lang_pos = 0
    /\ no_local = FALSE
    /\ use_google = FALSE
    /\ written = <<>>
    /\ uploaded = <<>>
    /\ outcomes = <<>>
    /\ f_pos = 0
    /\ calls = <<>>
    /\ errors = <<>>
    /\ f_result = "None"
    /\ InlineIdle
    /\ DocxIdle
    /\ UploadIdle

NextF ==
    \/ FallbackReturns
    \/ FallbackNext
    \/ FallbackPropagates
    \/ FallbackAllFailed

SpecF == InitF /\ [][NextF]_vars

(***************************************************************************)
(* Properties of FallbackTranslator.translate.                             *)
(***************************************************************************)
\* the provider at place k fails when it is called
ProviderFails(k) == ProviderTranslate(translators[k], texts_to_translate) # "returned"

\* C18: the providers are called in list order; translate returns what the
\* first provider that succeeds returns, no later provider being called;
\* whenever a called provider fails and is not the last, the next provider is
\* called; translate raises only when every provider was called and failed,
\* and what it raises is TranslationError.
C18_FallbackInOrder ==
    /\ calls = [k \in 1..Len(calls) |-> k]
    /\ \A k \in 1..(Len(calls) - 1) : ProviderFails(k)
    /\ pc = "returned" =>
          /\ calls # <<>>
          /\ ~ProviderFails(Len(calls))
    /\ pc = "raised" =>
          /\ f_result = "TranslationError"
          /\ Len(calls) = Len(translators)
          /\ \A k \in 1..Len(translators) : ProviderFails(k)

(***************************************************************************)
(* Properties of the classification of horizontal rules.                   *)
(***************************************************************************)
\* the text holds three or more characters, all of them c
OnlyChar(s, c) == Len(s) >= 3 /\ \A i \in 1..Len(s) : s[i] = c

\* three or more "-" or three or more "*" alone on the line, the surrounding
\* whitespace aside
ThreeOrMoreAlone(line) == OnlyChar(Strip(line), "-") \/ OnlyChar(Strip(line), "*")

\* the page-layout function takes a line outside a code block
DocxTakesLine == pc = "docx" /\ ~in_code_block /\ d_pos' = d_pos + 1

\* the upload function takes a line outside a code block
UploadTakesLine == pc = "upload" /\ ~g_in_code_block /\ g_pos' = g_pos + 1

\* C19: a line is a horizontal rule exactly when it holds only three or more
\* "-" or only three or more "*", the surrounding whitespace aside: the
\* translation classifier gives the kind "hr" to these lines and to no other,
\* and each of the two emitters takes a line outside a code block in its
\* rule branch exactly when the line is such a line.
C19_RuleLines ==
    /\ [](\A k \in 1..Len(lines) :
             parse_markdown_lines(lines)[k].kind = "hr" <=> ThreeOrMoreAlone(lines[k]))
    /\ [][DocxTakesLine => (DocxRule <=> ThreeOrMoreAlone(DLine))]_vars
    /\ [][UploadTakesLine => (UploadRule <=> ThreeOrMoreAlone(GRaw))]_vars

(***************************************************************************)
(* Properties of list continuations in convert_markdown_to_docx.           *)
(***************************************************************************)
\* line k is a bullet, numbered or lettered item outside a code block
ListLine(ls, k) ==
    /\ ~IsFenceLine(ls[k])
    /\ ~OpenFence(ls, k)
    /\ \/ NumberedItem(Strip(ls[k]))
       \/ AlphaItem(Strip(ls[k]))
       \/ BulletItem(Strip(ls[k]))

\* line k is indented and the line immediately before it is a list item or
\* is itself such a line
RECURSIVE ContLine(_, _)
ContLine(ls, k) ==
    /\ k > 1
    /\ IsIndented(ls[k])
    /\ ~OpenFence(ls, k)
    /\ ListLine(ls, k - 1) \/ ContLine(ls, k - 1)

\* the paragraphs of list items, and those of continuations
ListKinds == {"bullet", "number", "alpha"}
Continuations == {j \in 1..Len(doc) : doc[j].kind = "continuation"}

\* C20: the page-layout function takes a line as a list continuation only if
\* the line is indented by two spaces or a tab and the line immediately
\* before it is a list item or itself a continuation, so that an indented
\* line after a heading, blockquote, rule, table or code block is body text;
\* the paragraph written for a run of continuation lines follows the
\* paragraph of the list item and has its indentation.
C20_ContinuationAfterListItem ==
    /\ [][DocxContinuation => ContLine(lines, d_pos + 1)]_vars
    /\ [](\A j \in Continuations :
             /\ j > 1
             /\ doc[j - 1].kind \in ListKinds
             /\ doc[j].left_indent = doc[j - 1].left_indent
             /\ doc[j].right_indent = doc[j - 1].right_indent)

(***************************************************************************)
(* Properties of the text buffer of convert_markdown_to_docx.              *)
(***************************************************************************)
\* line k is a body line: outside a code block, not blank, and no fence,
\* table row, heading, blockquote, rule, list item or list continuation
BodyLineOf(ls, k) ==
    /\ ~IsFenceLine(ls[k])
    /\ ~OpenFence(ls, k)
    /\ Strip(ls[k]) # <<>>
    /\ ~TABLE_ROW_RE(ls[k])
    /\ ~HEADING_RE(ls[k])
    /\ ~BLOCKQUOTE_RE(ls[k])
    /\ ~IsRuleLine(ls[k])
    /\ ~ListLine(ls, k)
    /\ ~ContLine(ls, k)

\* line k starts a maximal run of contiguous body lines
RunStart(ls, k) == BodyLineOf(ls, k) /\ (k = 1 \/ ~BodyLineOf(ls, k - 1))

\* the last line of the run of body lines that holds line k
RECURSIVE RunEnd(_, _)
RunEnd(ls, k) ==
    IF k < Len(ls) /\ BodyLineOf(ls, k + 1) THEN RunEnd(ls, k + 1) ELSE k

\* the trimmed lines a to b joined by single spaces
JoinedLines(ls, a, b) ==
    Strip(JoinSpace([i \in 1..(b - a + 1) |-> Strip(ls[a + i - 1])]))

BodyParagraphs == {j \in 1..Len(doc) : doc[j].kind = "body"}

\* the paragraph holds one rule line or one table row and nothing else: the
\* page-layout function writes a rule, and a table row that starts no table,
\* as a paragraph of its own
HoldsLineAlone(j) ==
    /\ IsRuleLine(lines[doc[j].src]) \/ TABLE_ROW_RE(lines[doc[j].src])
    /\ doc[j].runs = FormattedRuns(lines[doc[j].src])

\* C21: in the saved document each body paragraph is exactly one maximal run
\* of contiguous body lines: it starts at the first line of a run, its text is
\* the trimmed lines of the run joined by single spaces, and every run that
\* starts at an unindented line gives exactly one paragraph; a rule or a
\* table row is never merged with another line into a paragraph.
C21_BodyParagraphIsOneRun ==
    pc = "saved" =>
        /\ \A j \in BodyParagraphs :
              \/ HoldsLineAlone(j)
              \/ /\ RunStart(lines, doc[j].src)
                 /\ doc[j].runs =
                       FormattedRuns(JoinedLines(lines, doc[j].src, RunEnd(lines, doc[j].src)))
        /\ \A k \in 1..Len(lines) :
              (RunStart(lines, k) /\ ~IsIndented(lines[k])) =>
                  Cardinality({j \in BodyParagraphs : doc[j].src = k}) = 1

\* the loop takes a line outside a code block that is not text for the
\* buffer: a blank line or a structural line
DocxEndsText ==
    /\ DocxLoop
    /\ ~in_code_block
    /\ ~DocxBody
    /\ ~DocxContinuation
    /\ d_pos' = d_pos + 1

\* the loop takes a line outside a code block that is neither a table row nor
\* blank
DocxEndsTable ==
    /\ DocxLoop
    /\ ~in_code_block
    /\ ~TABLE_ROW_RE(DLine)
    /\ Strip(DLine) # <<>>
    /\ d_pos' = d_pos + 1

\* the lines of the text buffer were written as one paragraph
TextFlushed ==
    /\ Len(doc') > Len(doc)
    /\ doc'[Len(doc) + 1].kind \in {"body", "continuation"}
    /\ doc'[Len(doc) + 1].src = buffer_src[1]
    /\ doc'[Len(doc) + 1].runs = FormattedRuns(JoinSpace([k \in 1..Len(buffer) |-> Strip(buffer[k])]))
    /\ \A k \in 1..Len(buffer_src') : buffer_src'[k] = d_pos + 1

\* C22: a blank line or a structural line that follows accumulated text
\* writes that text as one paragraph; a structural line that follows
\* accumulated table rows empties the table-row buffer; once the document is
\* saved the text buffer, the code-block buffer and the table-row buffer are
\* empty, whatever the input ended in.
C22_BuffersFlushed ==
    /\ [](pc = "saved" =>
             buffer = <<>> /\ code_block_lines = <<>> /\ table_rows = <<>>)
    /\ [][(DocxEndsText /\ buffer # <<>>) => TextFlushed]_vars
    /\ [][(DocxEndsTable /\ table_rows # <<>>) => table_rows' = <<>>]_vars

\* the loop takes a blank line
DocxTakesBlank == DocxLoop /\ Strip(DLine) = <<>> /\ d_pos' = d_pos + 1

\* C23: a blank line ends the open body paragraph, which is written, but
\* does not end an open table: the accumulated rows stay accumulated, so that
\* rows separated only by blank lines go to the same table; a blank line
\* inside a code fence is kept as a line of the code block.
C23_BlankKeepsTableOpen ==
    /\ [][(DocxTakesBlank /\ ~in_code_block /\ buffer # <<>>)
             => (TextFlushed /\ buffer' = <<>>)]_vars
    /\ [][(DocxTakesBlank /\ in_code_block)
             => code_block_lines' = Append(code_block_lines, DLine)]_vars
    /\ [][(DocxTakesBlank /\ ~in_code_block /\ table_rows # <<>>)
             => table_rows' = table_rows]_vars

\* C23, as the code has it: a blank line ends the open body paragraph, which
\* is written, and also ends an open table: after a blank line outside a code
\* fence the table-row buffer and the text buffer are empty, so that rows
\* separated by a blank line never go to the same table; a blank line inside
\* a code fence is kept as a line of the code block and ends nothing.
C23_BlankEndsTable ==
    /\ [][(DocxTakesBlank /\ ~in_code_block /\ buffer # <<>>)
             => (TextFlushed /\ buffer' = <<>>)]_vars
    /\ [][(DocxTakesBlank /\ in_code_block)
             => /\ code_block_lines' = Append(code_block_lines, DLine)
                /\ UNCHANGED <<doc, buffer, table_rows>>]_vars
    /\ [][(DocxTakesBlank /\ ~in_code_block)
             => (table_rows' = <<>> /\ buffer' = <<>>)]_vars

\* two table rows with a blank line between them were saved as two
\* paragraphs, not as one table
C23_Witness ==
    /\ pc = "saved"
    /\ lines = <<D_row, L_blank, D_row>>
    /\ Len(doc) = 2
    /\ doc[1].kind = "body" /\ doc[1].src = 1
    /\ doc[2].kind = "body" /\ doc[2].src = 3

(***************************************************************************)
(* Properties of the spacing around lists and headings.                    *)
(***************************************************************************)
\* the list items that are followed in the document by a block that is
\* neither a list item nor a continuation of one
EndsOfLists ==
    {j \in 1..(Len(doc) - 1) :
        /\ doc[j].kind \in ListKinds
        /\ doc[j + 1].kind \notin ListKinds \cup {"continuation"}}

\* C24: as soon as a body paragraph, heading, blockquote, code line or table
\* is written after a list item, that item, the last of its list, has the
\* space after of the end of a list block, 12pt; for bullet, numbered and
\* lettered items and in every language.
C24_ListEndSpacing ==
    \A j \in EndsOfLists : doc[j].space_after = LIST_BLOCK_END_SPACE_AFTER_PT

\* the blocks that are paragraphs of running text: not a heading, not a
\* list item, not a table
TextKinds == {"body", "continuation", "quote", "code"}

\* the paragraphs of running text directly followed by a heading or by the
\* first item of a list
BeforeHeadingOrList ==
    {j \in 1..(Len(doc) - 1) :
        /\ doc[j].kind \in TextKinds
        /\ doc[j + 1].kind \in {"heading"} \cup ListKinds}

\* a later line may change the space after of paragraph j: j is the last
\* paragraph, and either it is running text and a heading or a list item is
\* written after it, or it is a list item and its list ends
MayChangeSpace(j) ==
    /\ j = Len(doc)
    /\ Len(doc') > Len(doc)
    /\ \/ doc[j].kind \in TextKinds /\ doc'[j + 1].kind \in {"heading", "title"} \cup ListKinds
       \/ doc[j].kind \in {"heading", "title"} /\ doc'[j + 1].kind = "heading"
       \/ doc[j].kind \in ListKinds /\ doc'[j + 1].kind \notin ListKinds

\* C25: the paragraph written immediately before a heading, or before the
\* first item of a list, has its space after set to 2pt; and a later line
\* changes the space after of no other paragraph already written, in
\* particular not that of a list item followed by another item of its list.
C25_SpaceBeforeHeadingOrList ==
    /\ [](\A j \in BeforeHeadingOrList :
             doc[j].space_after = SPACE_AFTER_BEFORE_HEADING_PT)
    /\ [][\A j \in 1..Len(doc) :
             (Len(doc') >= Len(doc) /\ doc'[j].space_after # doc[j].space_after)
                 => MayChangeSpace(j)]_vars

(***************************************************************************)
(* Properties of the order and the content of the saved document.          *)
(***************************************************************************)
\* C26: the blocks of the document are in the order of the source lines they
\* were written for: a block written for line i stands before every block
\* written for a line j > i.
C26_BlocksInSourceOrder ==
    \A a, b \in 1..Len(doc) : a < b => doc[a].src <= doc[b].src

\* the lines whose text the document has to hold: not blank, no fence
\* marker, no table separator row
ContentLines ==
    {k \in 1..Len(lines) :
        /\ Strip(lines[k]) # <<>>
        /\ ~IsFenceLine(lines[k])
        /\ ~TABLE_SEP_RE(lines[k])}

\* the lines of the set ks, in source order, trimmed and joined by spaces
JoinedSet(ks) ==
    LET idx == SelectSeq(LineIndexes, LAMBDA k : k \in ks)
    IN  Strip(JoinSpace([i \in 1..Len(idx) |-> Strip(lines[idx[i]])]))

\* paragraph j holds line k: it was written for line k, or it is the
\* paragraph of a group of lines that has k among them
InParagraph(k, j) ==
    /\ doc[j].kind # "table"
    /\ \/ doc[j].src = k
       \/ /\ doc[j].kind \in {"body", "continuation"}
          /\ \E ks \in SUBSET ((doc[j].src + 1)..Len(lines)) :
                /\ k \in ks
                /\ doc[j].runs = FormattedRuns(JoinedSet(ks \cup {doc[j].src}))

\* table j holds line k: k is its header line, or a row of the table holds
\* every cell of line k
InTable(k, j) ==
    /\ doc[j].kind = "table"
    /\ \/ doc[j].src = k
       \/ /\ TABLE_ROW_RE(lines[k])
          /\ \E r \in 1..Len(doc[j].rows) :
                \A c \in 1..Len(RowCells(lines[k])) :
                    /\ c <= Len(doc[j].rows[r])
                    /\ doc[j].rows[r][c] = Strip(RowCells(lines[k])[c])

\* C27: the saved document drops no content: every source line that is not
\* blank, not a fence marker and not a table separator row is held by some
\* paragraph or by some table of the document.
C27_NoContentDropped ==
    pc = "saved" =>
        \A k \in ContentLines :
            \E j \in 1..Len(doc) : InParagraph(k, j) \/ InTable(k, j)

-----------------------------------------------------------------------------
\* convert_markdown_to_docx on documents of headings, fences, text and blank
\* lines, long enough for a heading, a code block and a second heading

MaxHLines == 5

HLinePool == {L_blank, L_fence, D_title, D_section, D_body}

InitH ==
    /\ pc = "docx"
    /\ lines \in Docs(HLinePool, MaxHLines)
    /\ lang \in DLangs
    /\ TransIdle
    /\ InlineIdle
    /\ DocxIdle
    /\ UploadIdle

NextH ==
    \/ DocxFence
    \/ DocxCodeLine
    \/ DocxHeading
    \/ DocxBlank
    \/ DocxBody
    \/ DocxFinish

SpecH == InitH /\ [][NextH]_vars

\* the last block of the document is a heading or the title
HeadingKinds == {"heading", "title"}
LastIsHeading == doc # <<>> /\ doc[Len(doc)].kind \in HeadingKinds

\* the step writes a heading with the spacing of consecutive headings
WritesCompressedHeading ==
    /\ pc = "docx"
    /\ Len(doc') > Len(doc)
    /\ doc'[Len(doc')].kind = "heading"
    /\ doc'[Len(doc')].space_before = 6

\* C28: in convert_markdown_to_docx, last_was_heading is true exactly when
\* the last block written is a heading or the title, and a heading is given
\* the spacing of consecutive headings only when the paragraph written
\* immediately before it is a heading or the title.
C28_HeadingFlagFollowsLastBlock ==
    /\ [](pc \in {"docx", "saved"} => (last_was_heading <=> LastIsHeading))
    /\ [][WritesCompressedHeading =>
             /\ Len(doc') >= 2
             /\ doc'[Len(doc') - 1].kind \in HeadingKinds]_vars

-----------------------------------------------------------------------------
\* Properties of the kinds of the rebuilt lines

\* the kinds parse_markdown_lines gives to the lines ls
KindsOf(ls) == [k \in 1..Len(ls) |-> ClassifyLine(ls[k]).kind]

\* C29: rebuilding under an identity translation never changes the role of a
\* line: parse_markdown_lines gives the rebuilt lines the same number of
\* entries and the same sequence of kinds as it gives the input lines.
C29_RebuildKeepsKinds ==
    IdentityRun => KindsOf(out) = KindsOf(lines)

-----------------------------------------------------------------------------
\* Properties of the markers of list items

\* the text of a paragraph: the texts of its runs, one after the other
ParagraphText(p) == Concat([k \in 1..Len(p.runs) |-> p.runs[k].text])

\* the numeric prefix of the source line of a numbered item: digits and "."
NumericPrefix(line) ==
    LET s == LStripChars(line, WS)
    IN  SubSeq(s, 1, LeadCount(s, DIGITS) + 1)

BulletStyles == {"List Bullet", "List Bullet 2", "List Bullet 3"}
NumberStyles == {"List Number", "List Number 2", "List Number 3"}

\* C30: every list item of the document carries a list marker in every
\* language: a bullet item has a bullet list style or its text starts with
\* the bullet character, and a numbered item has a numbered list style or
\* its text starts with the numeric prefix of its source line.
C30_ListItemsCarryMarker ==
    \A j \in 1..Len(doc) :
        /\ doc[j].kind = "bullet" =>
               \/ doc[j].style \in BulletStyles
               \/ StartsWith(ParagraphText(doc[j]), <<BULLET_CHAR>>)
        /\ doc[j].kind = "number" =>
               \/ doc[j].style \in NumberStyles
               \/ StartsWith(ParagraphText(doc[j]), NumericPrefix(lines[doc[j].src]))

====
